---- MODULE Spec2Model ----
(***************************************************************************)
(* Verification model of the cyclogon generator (Cocoyol/cyclogons_graph). *)
(*                                                                         *)
(* Numbers.  JavaScript Numbers are modelled in fixed point:               *)
(*   - lengths, coordinates, edge parameters t and cycle counts are        *)
(*     integers in units of 1/SCALE (1.0 is SCALE);                        *)
(*   - angles are integers in degrees (2*pi is 360);                       *)
(*   - Math.sin / Math.cos return integers in units of 1/TRIG, taken from  *)
(*     a table of the true values rounded to 4 decimals;                   *)
(*   - every division rounds to the nearest unit (RDiv), as a floating     *)
(*     point division rounds to the nearest representable number;          *)
(*   - null is the empty sequence (Null), a non-null value v is <<v>>;     *)
(*   - NaN is the string "NaN".                                            *)
(***************************************************************************)
EXTENDS Integers, Sequences, FiniteSets, TLC

\* ===========================================================================
\* Fixed-point arithmetic (JavaScript Number, Math.*)
\* ===========================================================================

SCALE == 100

TRIG == 10000

NaN == "NaN"

Null == <<>>

Some(v) == <<v>>

Abs(a) == IF a < 0 THEN -a ELSE a

\* a / b rounded to the nearest integer (b > 0)
RDiv(a, b) == (2 * a + b) \div (2 * b)

\* Math.ceil(a / b) (b > 0)
CeilDiv(a, b) == -((-a) \div b)

MathMax(a, b) == IF a >= b THEN a ELSE b

MathMin(a, b) == IF a <= b THEN a ELSE b

SinTable ==
    << 0, 175, 349, 523, 698, 872, 1045, 1219, 1392, 1564,
       1736, 1908, 2079, 2250, 2419, 2588, 2756, 2924, 3090, 3256,
       3420, 3584, 3746, 3907, 4067, 4226, 4384, 4540, 4695, 4848,
       5000, 5150, 5299, 5446, 5592, 5736, 5878, 6018, 6157, 6293,
       6428, 6561, 6691, 6820, 6947, 7071, 7193, 7314, 7431, 7547,
       7660, 7771, 7880, 7986, 8090, 8192, 8290, 8387, 8480, 8572,
       8660, 8746, 8829, 8910, 8988, 9063, 9135, 9205, 9272, 9336,
       9397, 9455, 9511, 9563, 9613, 9659, 9703, 9744, 9781, 9816,
       9848, 9877, 9903, 9925, 9945, 9962, 9976, 9986, 9994, 9998,
       10000 >>

\* Math.sin of an angle in degrees, in units of 1/TRIG
MathSin(a) ==
    LET m == a % 360
    IN  IF m <= 90 THEN SinTable[m + 1]
        ELSE IF m <= 180 THEN SinTable[180 - m + 1]
        ELSE IF m <= 270 THEN -SinTable[m - 180 + 1]
        ELSE -SinTable[360 - m + 1]

\* Math.cos of an angle in degrees, in units of 1/TRIG
MathCos(a) == MathSin(a + 90)

RECURSIVE SqrtSearch(_, _, _)
\* largest r in lo..hi with r * r <= n
SqrtSearch(n, lo, hi) ==
    IF lo >= hi THEN lo
    ELSE LET mid == (lo + hi + 1) \div 2
         IN  IF mid * mid <= n THEN SqrtSearch(n, mid, hi)
             ELSE SqrtSearch(n, lo, mid - 1)

\* Math.sqrt(n), rounded to the nearest integer (n >= 0, below 2^28)
MathSqrt(n) == (SqrtSearch(4 * n, 0, 32767) + 1) \div 2

RECURSIVE AtanSearch(_, _, _, _)
\* for ax, ay >= 0: the largest a in lo..hi, in degrees, with tan(a) <= ay / ax
AtanSearch(ay, ax, lo, hi) ==
    IF lo >= hi THEN lo
    ELSE LET mid == (lo + hi + 1) \div 2
         IN  IF ax * MathSin(mid) <= ay * MathCos(mid)
             THEN AtanSearch(ay, ax, mid, hi)
             ELSE AtanSearch(ay, ax, lo, mid - 1)

\* Math.atan2(y, x) in degrees, rounded to the nearest degree, in -179..180;
\* atan2(0, 0) is 0
MathAtan2(y, x) ==
    IF x = 0 /\ y = 0 THEN 0
    ELSE LET ax    == Abs(x)
             ay    == Abs(y)
             below == AtanSearch(ay, ax, 0, 90)
             acute == IF below < 90
                         /\ Abs(ay * MathCos(below + 1) - ax * MathSin(below + 1))
                              < Abs(ay * MathCos(below) - ax * MathSin(below))
                      THEN below + 1 ELSE below
             angle == IF x >= 0 THEN (IF y >= 0 THEN acute ELSE -acute)
                      ELSE (IF y >= 0 THEN 180 - acute ELSE acute - 180)
         IN  IF angle <= -180 THEN angle + 360 ELSE angle

HALF_PI == 90

TWO_PI == 360

PI == 180

\* a point {x, y}
Pt(x, y) == [x |-> x, y |-> y]

\* ===========================================================================
\* Polygon.js: Edge and Polygon
\* ===========================================================================

\* new Edge(start, end, index): copies the x and y of its end points
Edge(start, end, index) ==
    [start |-> Pt(start.x, start.y), end |-> Pt(end.x, end.y), index |-> index]

\* Edge.getPointAt(t): t is clamped to [0, 1] before interpolating
EdgeGetPointAt(edge, t) ==
    LET tc == MathMax(0, MathMin(SCALE, t))
    IN  Pt(edge.start.x + RDiv(tc * (edge.end.x - edge.start.x), SCALE),
           edge.start.y + RDiv(tc * (edge.end.y - edge.start.y), SCALE))

\* Edge.distanceToPoint(point): {distance, closestPoint, t}
EdgeDistanceToPoint(edge, point) ==
    LET dx == edge.end.x - edge.start.x
        dy == edge.end.y - edge.start.y
        lengthSquared == dx * dx + dy * dy
    IN  IF lengthSquared = 0
        THEN [distance |-> MathSqrt((point.x - edge.start.x) * (point.x - edge.start.x)
                                    + (point.y - edge.start.y) * (point.y - edge.start.y)),
              closestPoint |-> Pt(edge.start.x, edge.start.y),
              t |-> 0]
        ELSE LET raw == RDiv(((point.x - edge.start.x) * dx
                              + (point.y - edge.start.y) * dy) * SCALE, lengthSquared)
                 t   == MathMax(0, MathMin(SCALE, raw))
                 cp  == Pt(edge.start.x + RDiv(t * dx, SCALE),
                           edge.start.y + RDiv(t * dy, SCALE))
             IN  [distance |-> MathSqrt((point.x - cp.x) * (point.x - cp.x)
                                        + (point.y - cp.y) * (point.y - cp.y)),
                  closestPoint |-> cp,
                  t |-> t]

\* Edge.getNormal(): unit vector (dy, -dx) / length, in units of 1/TRIG
EdgeGetNormal(edge) ==
    LET dx == edge.end.x - edge.start.x
        dy == edge.end.y - edge.start.y
        length == MathSqrt(dx * dx + dy * dy)
    IN  Pt(RDiv(dy * TRIG, length), RDiv(-dx * TRIG, length))

\* Polygon._calculateGeometry(): the vertices, then the edges built from them
CalculateVertices(sides, radius, rotationOffset) ==
    [k \in 1..sides |->
        LET angle == rotationOffset + RDiv((k - 1) * TWO_PI, sides)
        IN  [x |-> RDiv(MathCos(angle) * radius, TRIG),
             y |-> RDiv(MathSin(angle) * radius, TRIG),
             angle |-> angle,
             index |-> k - 1]]

CalculateEdges(sides, vertices) ==
    [k \in 1..sides |-> Edge(vertices[k], vertices[(k % sides) + 1], k - 1)]

\* new Polygon(sides, radius, rotationOffset) for sides >= 3 and radius > 0
Polygon(sides, radius, rotationOffset) ==
    LET vs == CalculateVertices(sides, radius, rotationOffset)
    IN  [kind |-> "polygon", sides |-> sides, radius |-> radius,
         rotationOffset |-> rotationOffset,
         vertices |-> vs, edges |-> CalculateEdges(sides, vs)]

\* Polygon.getSideLength(): 2 R sin(pi / n)
GetSideLength(polygon) ==
    RDiv(2 * polygon.radius * MathSin(RDiv(PI, polygon.sides)), TRIG)

\* Polygon.getApothem(): R cos(pi / n)
GetApothem(polygon) ==
    RDiv(polygon.radius * MathCos(RDiv(PI, polygon.sides)), TRIG)

\* Polygon.getInteriorAngle(): (n - 2) pi / n
GetInteriorAngle(polygon) == RDiv((polygon.sides - 2) * PI, polygon.sides)

\* Polygon.getExteriorAngle(): 2 pi / n
GetExteriorAngle(polygon) == RDiv(TWO_PI, polygon.sides)

\* the index normalisation of Polygon.getVertex / getEdge, 1-based for sequences
NormalizedIndex(polygon, index) ==
    (((index % polygon.sides) + polygon.sides) % polygon.sides) + 1

\* Polygon.getEdge(index)
GetEdge(polygon, index) == polygon.edges[NormalizedIndex(polygon, index)]

\* Polygon.getVertex(index)
GetVertex(polygon, index) == polygon.vertices[NormalizedIndex(polygon, index)]

RECURSIVE TopVertexScan(_, _, _)
TopVertexScan(vertices, k, top) ==
    IF k > Len(vertices) THEN top
    ELSE TopVertexScan(vertices, k + 1,
                       IF vertices[k].y > top.y THEN vertices[k] ELSE top)

\* Polygon.getTopVertex(): the first vertex of maximal y
GetTopVertex(polygon) == TopVertexScan(polygon.vertices, 1, polygon.vertices[1])

RECURSIVE ClosestEdgeScan(_, _, _, _)
ClosestEdgeScan(edges, point, k, result) ==
    IF k > Len(edges) THEN result
    ELSE LET distResult == EdgeDistanceToPoint(edges[k], point)
         IN  IF result = Null \/ distResult.distance < result[1].distance
             THEN ClosestEdgeScan(edges, point, k + 1,
                      Some([edge |-> edges[k], distance |-> distResult.distance,
                            closestPoint |-> distResult.closestPoint,
                            t |-> distResult.t, edgeIndex |-> k - 1]))
             ELSE ClosestEdgeScan(edges, point, k + 1, result)

\* Polygon.findClosestEdge(point): the first edge of minimal distance
FindClosestEdge(polygon, point) == ClosestEdgeScan(polygon.edges, point, 1, Null)[1]

\* ===========================================================================
\* Circle.js
\* ===========================================================================

\* new Circle(radius, center) for radius > 0
Circle(radius, center) ==
    [kind |-> "circle", radius |-> radius, center |-> Pt(center.x, center.y)]

\* Circle.getPointOnCircle(angle)
GetPointOnCircle(circle, angle) ==
    Pt(circle.center.x + RDiv(MathCos(angle) * circle.radius, TRIG),
       circle.center.y + RDiv(MathSin(angle) * circle.radius, TRIG))

\* Circle.getTopPoint()
GetTopPoint(circle) == GetPointOnCircle(circle, HALF_PI)

\* Circle.angleToPoint(point)
AngleToPoint(circle, point) ==
    MathAtan2(point.y - circle.center.y, point.x - circle.center.x)

\* Circle.projectToBorder(point): {x, y, angle}
ProjectToBorder(circle, point) ==
    LET angle == AngleToPoint(circle, point)
        projected == GetPointOnCircle(circle, angle)
    IN  [x |-> projected.x, y |-> projected.y, angle |-> angle]

\* a value that is neither a Circle nor a Polygon (null, a plain object)
OtherShape == [kind |-> "other"]

\* the value null passed where a shape is expected
NullShape == [kind |-> "null"]

IsCircle(shape) == shape.kind = "circle"

IsPolygon(shape) == shape.kind = "polygon"

\* ===========================================================================
\* Cyclogon.js: the curve model
\* ===========================================================================

\* new Cyclogon(type, sourceShape): no points, no metadata
Cyclogon(type, sourceShape) ==
    [type |-> type, sourceShape |-> sourceShape, points |-> <<>>, metadata |-> <<>>]

\* Cyclogon.addPoint(point) for each point of a sequence, in order
AddPoints(cyclogon, points) ==
    [cyclogon EXCEPT !.points = cyclogon.points \o points]

\* Cyclogon.setMetadata(metadata): the new keys override, the others stay
SetMetadata(cyclogon, metadata) ==
    [cyclogon EXCEPT !.metadata =
        [k \in (DOMAIN cyclogon.metadata) \cup (DOMAIN metadata) |->
            IF k \in DOMAIN metadata THEN metadata[k] ELSE cyclogon.metadata[k]]]

\* Cyclogon.isEmpty
IsEmpty(cyclogon) == Len(cyclogon.points) = 0

\* ===========================================================================
\* CyclogonCalculator.js
\* ===========================================================================

\* options.pointsPerSide of the calculator under analysis
PointsPerSide == 2

\* options.pointsPerRadian of the calculator under analysis
PointsPerRadian == 1

\* 2 * pi radians, in units of 1/SCALE
TWO_PI_RAD == 628

\* an angle in degrees as radians in units of 1/SCALE
Radians(deg) == RDiv(deg * TWO_PI_RAD, TWO_PI)

\* one sample of generateCycloid (the body of its loop), for i of 0..numPoints
CycloidSample(R, d, alpha, totalAngle, numPoints, i) ==
    IF numPoints = 0
    THEN \* theta = (0 / 0) * totalAngle
         [x |-> NaN, y |-> NaN, theta |-> NaN, center |-> [x |-> NaN, y |-> R]]
    ELSE LET theta      == RDiv(i * totalAngle, numPoints)
             centerX    == RDiv(R * Radians(theta), SCALE)
             centerY    == R
             pointAngle == alpha - theta
         IN  [x |-> centerX + RDiv(d * MathCos(pointAngle), TRIG),
              y |-> centerY + RDiv(d * MathSin(pointAngle), TRIG),
              theta |-> theta,
              center |-> Pt(centerX, centerY)]

\* generateCycloid with a loop that stops before i = numPoints
GenerateCycloidOpenEnded(circle, tracePoint, cycles) ==
    LET R          == circle.radius
        d          == MathSqrt(tracePoint.x * tracePoint.x + tracePoint.y * tracePoint.y)
        alpha      == MathAtan2(tracePoint.y, tracePoint.x)
        totalAngle == RDiv(cycles * TWO_PI, SCALE)
        numPoints  == CeilDiv(cycles * TWO_PI_RAD * PointsPerRadian, SCALE * SCALE)
        samples    == IF numPoints < 0 THEN <<>>
                      ELSE [k \in 1..numPoints |->
                               CycloidSample(R, d, alpha, totalAngle, numPoints, k - 1)]
    IN  SetMetadata(AddPoints(Cyclogon("cycloid", circle), samples),
                    [cycles |-> cycles,
                     totalDistance |-> RDiv(R * RDiv(cycles * TWO_PI_RAD, SCALE), SCALE),
                     drawPointDistance |-> d,
                     drawPointAngle |-> alpha])

\* CyclogonCalculator.generateCycloid(circle, drawPoint, cycles)
GenerateCycloid(circle, tracePoint, cycles) ==
    LET R          == circle.radius
        d          == MathSqrt(tracePoint.x * tracePoint.x + tracePoint.y * tracePoint.y)
        alpha      == MathAtan2(tracePoint.y, tracePoint.x)
        totalAngle == RDiv(cycles * TWO_PI, SCALE)
        numPoints  == CeilDiv(cycles * TWO_PI_RAD * PointsPerRadian, SCALE * SCALE)
        samples    == IF numPoints < 0 THEN <<>>
                      ELSE [k \in 1..(numPoints + 1) |->
                               CycloidSample(R, d, alpha, totalAngle, numPoints, k - 1)]
    IN  SetMetadata(AddPoints(Cyclogon("cycloid", circle), samples),
                    [cycles |-> cycles,
                     totalDistance |-> RDiv(R * RDiv(cycles * TWO_PI_RAD, SCALE), SCALE),
                     drawPointDistance |-> d,
                     drawPointAngle |-> alpha])

RECURSIVE BottomSideScan(_, _, _, _)
BottomSideScan(polygon, i, bestIndex, maxDot) ==
    IF i >= polygon.sides THEN bestIndex
    ELSE LET dot == -EdgeGetNormal(GetEdge(polygon, i)).y
         IN  IF maxDot = Null \/ dot > maxDot[1]
             THEN BottomSideScan(polygon, i + 1, i, Some(dot))
             ELSE BottomSideScan(polygon, i + 1, bestIndex, maxDot)

\* CyclogonCalculator._findBottomSideIndex(polygon); maxDot starts at -Infinity
FindBottomSideIndex(polygon) == BottomSideScan(polygon, 0, 0, Null)

\* CyclogonCalculator._getEdgeNormalAngle(polygon, edgeIndex)
GetEdgeNormalAngle(polygon, edgeIndex) ==
    LET normal == EdgeGetNormal(GetEdge(polygon, edgeIndex))
    IN  MathAtan2(normal.y, normal.x)

\* CyclogonCalculator._getDistancePivotToCenter(polygon, sideIndex)
GetDistancePivotToCenter(polygon, sideIndex) == polygon.radius

\* a centre that starts right above the pivot
GetCenterAngleUpright(polygon, sideIndex) == HALF_PI

\* CyclogonCalculator._getCenterAngleFromPivot(polygon, sideIndex)
GetCenterAngleFromPivot(polygon, sideIndex) ==
    HALF_PI + RDiv(PI - GetInteriorAngle(polygon), 2)

\* CyclogonCalculator._rotatePoint(point, pivot, angle)
RotatePoint(point, pivot, angle) ==
    LET cos == MathCos(angle)
        sin == MathSin(angle)
        dx  == point.x - pivot.x
        dy  == point.y - pivot.y
    IN  Pt(pivot.x + RDiv(dx * cos - dy * sin, TRIG),
           pivot.y + RDiv(dx * sin + dy * cos, TRIG))

\* (cycles * n) % 1, in units of 1/SCALE (taken for cycles * n > 0 only)
FractionalPart(v) == v % SCALE

\* pointsThisSide of generateCyclogon for the side sideIndex
PointsThisSide(cyclesN, totalSides, sideIndex) ==
    LET isLastSide == sideIndex = totalSides - 1
        fractionOfLastSide ==
            IF isLastSide /\ FractionalPart(cyclesN) # 0
            THEN FractionalPart(cyclesN) ELSE SCALE
    IN  CeilDiv(PointsPerSide * fractionOfLastSide, SCALE)

\* CyclogonSample with the trace point placed about the pivot
CyclogonSampleAboutPivot(polygon, adjusted, sideLength, exteriorAngle, sideIndex, p) ==
    LET pivot   == Pt((sideIndex + 1) * sideLength, 0)
        polygonRotation == sideIndex * exteriorAngle
        localRotation == RDiv(p * exteriorAngle, PointsPerSide)
        currentTotalRotation == polygonRotation + localRotation
        centerDistance == GetDistancePivotToCenter(polygon, sideIndex)
        rotatedCenterAngle == GetCenterAngleFromPivot(polygon, sideIndex) - localRotation
        centerX == pivot.x + RDiv(centerDistance * MathCos(rotatedCenterAngle), TRIG)
        centerY == pivot.y + RDiv(centerDistance * MathSin(rotatedCenterAngle), TRIG)
        rotatedDrawPointAngle == MathAtan2(adjusted.y, adjusted.x) - currentTotalRotation
        drawPointDist == MathSqrt(adjusted.x * adjusted.x + adjusted.y * adjusted.y)
    IN  [x |-> pivot.x + RDiv(drawPointDist * MathCos(rotatedDrawPointAngle), TRIG),
         y |-> pivot.y + RDiv(drawPointDist * MathSin(rotatedDrawPointAngle), TRIG),
         sideIndex |-> sideIndex,
         rotation |-> currentTotalRotation,
         pivot |-> pivot,
         center |-> Pt(centerX, centerY)]

\* CyclogonSample with the first pivot at the origin
CyclogonSamplePivotFromOrigin(polygon, adjusted, sideLength, exteriorAngle, sideIndex, p) ==
    LET pivot   == Pt(sideIndex * sideLength, 0)
        polygonRotation == sideIndex * exteriorAngle
        localRotation == RDiv(p * exteriorAngle, PointsPerSide)
        currentTotalRotation == polygonRotation + localRotation
        centerDistance == GetDistancePivotToCenter(polygon, sideIndex)
        rotatedCenterAngle == GetCenterAngleFromPivot(polygon, sideIndex) - localRotation
        centerX == pivot.x + RDiv(centerDistance * MathCos(rotatedCenterAngle), TRIG)
        centerY == pivot.y + RDiv(centerDistance * MathSin(rotatedCenterAngle), TRIG)
        rotatedDrawPointAngle == MathAtan2(adjusted.y, adjusted.x) - currentTotalRotation
        drawPointDist == MathSqrt(adjusted.x * adjusted.x + adjusted.y * adjusted.y)
    IN  [x |-> centerX + RDiv(drawPointDist * MathCos(rotatedDrawPointAngle), TRIG),
         y |-> centerY + RDiv(drawPointDist * MathSin(rotatedDrawPointAngle), TRIG),
         sideIndex |-> sideIndex,
         rotation |-> currentTotalRotation,
         pivot |-> pivot,
         center |-> Pt(centerX, centerY)]

\* one sample of generateCyclogon (the body of its inner loop)
CyclogonSample(polygon, adjusted, sideLength, exteriorAngle, sideIndex, p) ==
    LET pivot   == Pt((sideIndex + 1) * sideLength, 0)
        polygonRotation == sideIndex * exteriorAngle
        localRotation == RDiv(p * exteriorAngle, PointsPerSide)
        currentTotalRotation == polygonRotation + localRotation
        centerDistance == GetDistancePivotToCenter(polygon, sideIndex)
        rotatedCenterAngle == GetCenterAngleFromPivot(polygon, sideIndex) - localRotation
        centerX == pivot.x + RDiv(centerDistance * MathCos(rotatedCenterAngle), TRIG)
        centerY == pivot.y + RDiv(centerDistance * MathSin(rotatedCenterAngle), TRIG)
        rotatedDrawPointAngle == MathAtan2(adjusted.y, adjusted.x) - currentTotalRotation
        drawPointDist == MathSqrt(adjusted.x * adjusted.x + adjusted.y * adjusted.y)
    IN  [x |-> centerX + RDiv(drawPointDist * MathCos(rotatedDrawPointAngle), TRIG),
         y |-> centerY + RDiv(drawPointDist * MathSin(rotatedDrawPointAngle), TRIG),
         sideIndex |-> sideIndex,
         rotation |-> currentTotalRotation,
         pivot |-> pivot,
         center |-> Pt(centerX, centerY)]

\* SideSamples with the sample shared by two consecutive sides kept on both
SideSamplesKeepingBoundary(polygon, adjusted, sideLength, exteriorAngle, cyclesN, totalSides, sideIndex) ==
    LET pointsThisSide == PointsThisSide(cyclesN, totalSides, sideIndex)
    IN  [k \in 1..(pointsThisSide + 1) |->
            CyclogonSample(polygon, adjusted, sideLength, exteriorAngle, sideIndex, k - 1)]

\* SideSamples without the last sample of any side
SideSamplesSkippingLast(polygon, adjusted, sideLength, exteriorAngle, cyclesN, totalSides, sideIndex) ==
    LET pointsThisSide == PointsThisSide(cyclesN, totalSides, sideIndex)
    IN  [k \in 1..pointsThisSide |->
            CyclogonSample(polygon, adjusted, sideLength, exteriorAngle, sideIndex, k - 1)]

\* the samples generateCyclogon adds for one side: p = 0..pointsThisSide, without
\* the last one unless the side is the last
SideSamples(polygon, adjusted, sideLength, exteriorAngle, cyclesN, totalSides, sideIndex) ==
    LET pointsThisSide == PointsThisSide(cyclesN, totalSides, sideIndex)
        count == IF sideIndex < totalSides - 1 THEN pointsThisSide ELSE pointsThisSide + 1
    IN  [k \in 1..count |->
            CyclogonSample(polygon, adjusted, sideLength, exteriorAngle, sideIndex, k - 1)]

RECURSIVE CyclogonSides(_, _, _, _, _, _, _)
\* the outer loop of generateCyclogon, from side sideIndex on
CyclogonSides(polygon, adjusted, sideLength, exteriorAngle, cyclesN, totalSides, sideIndex) ==
    IF sideIndex >= totalSides THEN <<>>
    ELSE SideSamples(polygon, adjusted, sideLength, exteriorAngle,
                     cyclesN, totalSides, sideIndex)
         \o CyclogonSides(polygon, adjusted, sideLength, exteriorAngle,
                          cyclesN, totalSides, sideIndex + 1)

\* CyclogonCalculator.generateCyclogon(polygon, drawPoint, cycles)
GenerateCyclogon(polygon, tracePoint, cycles) ==
    LET n == polygon.sides
        sideLength == GetSideLength(polygon)
        exteriorAngle == GetExteriorAngle(polygon)
        bottomSideIndex == FindBottomSideIndex(polygon)
        currentNormalAngle == GetEdgeNormalAngle(polygon, bottomSideIndex)
        targetNormalAngle == -HALF_PI
        adjustmentRotation == targetNormalAngle - currentNormalAngle
        adjustedDrawPoint == RotatePoint(tracePoint, Pt(0, 0), adjustmentRotation)
        cyclesN == cycles * n
        totalSides == CeilDiv(cyclesN, SCALE)
        samples == CyclogonSides(polygon, adjustedDrawPoint, sideLength, exteriorAngle,
                                 cyclesN, totalSides, 0)
    IN  SetMetadata(AddPoints(Cyclogon("cyclogon", polygon), samples),
                    [cycles |-> cycles,
                     sides |-> n,
                     totalDistance |-> totalSides * sideLength,
                     sideLength |-> sideLength,
                     exteriorAngle |-> exteriorAngle,
                     adjustmentRotation |-> adjustmentRotation])

\* the result of a call: a returned value or a thrown error
Returned(v) == [outcome |-> "returned", value |-> v]

Thrown(e) == [outcome |-> "thrown", error |-> e]

\* generate answering an unsupported shape with an empty curve
GenerateAnyShape(shape, tracePoint, cycles) ==
    IF IsCircle(shape) THEN Returned(GenerateCycloid(shape, tracePoint, cycles))
    ELSE IF IsPolygon(shape) THEN Returned(GenerateCyclogon(shape, tracePoint, cycles))
    ELSE Returned(Cyclogon("cyclogon", shape))

\* generate refusing a trace point at the shape's centre
GenerateOffCentre(shape, tracePoint, cycles) ==
    IF tracePoint.x = 0 /\ tracePoint.y = 0
    THEN Thrown("Error: punto de dibujo en el centro")
    ELSE IF IsCircle(shape) THEN Returned(GenerateCycloid(shape, tracePoint, cycles))
    ELSE IF IsPolygon(shape) THEN Returned(GenerateCyclogon(shape, tracePoint, cycles))
    ELSE Thrown("Error: Forma no soportada. Use Circle o Polygon.")

\* CyclogonCalculator.generate(shape, drawPoint, cycles)
Generate(shape, tracePoint, cycles) ==
    IF IsCircle(shape) THEN Returned(GenerateCycloid(shape, tracePoint, cycles))
    ELSE IF IsPolygon(shape) THEN Returned(GenerateCyclogon(shape, tracePoint, cycles))
    ELSE Thrown("Error: Forma no soportada. Use Circle o Polygon.")

\* ===========================================================================
\* DrawPoint.js: the trace point
\*
\* The record has the fields of the object that the operations below read or
\* write.  The purely visual counters _animationProgress and _pulsePhase, the
\* colours and scales are left out, and a trail point is its alpha only (its
\* x and y are never read back by the model).
\* ===========================================================================

\* the methods a call target offers (a call of any other name is a TypeError)
Methods(shape) ==
    IF IsCircle(shape)
    THEN {"getPointOnCircle", "getTopPoint", "projectToBorder", "angleToPoint"}
    ELSE IF IsPolygon(shape)
    THEN {"getEdge", "getVertex", "getTopVertex", "findClosestEdge"}
    ELSE {}

TypeError(name) == "TypeError: " \o name \o " is not a function"

\* the result of a method call on the trace point: the object after the call,
\* and the call's outcome
Done(dp) == [outcome |-> "returned", self |-> dp, error |-> ""]

Failed(dp, e) == [outcome |-> "thrown", self |-> dp, error |-> e]

\* new DrawPoint(x, y)
DrawPoint(x, y) ==
    [position |-> Pt(x, y),
     targetPosition |-> Pt(x, y),
     isSnappedToEdge |-> FALSE,
     snappedEdgeIndex |-> Null,
     edgeParameter |-> 0,
     snappedAngle |-> Null,
     isHovered |-> FALSE,
     isDragging |-> FALSE,
     visualState |-> "idle",
     trailPoints |-> <<>>]

\* DrawPoint._updateVisualState()
UpdateVisualState(dp) ==
    [dp EXCEPT !.visualState =
        IF dp.isDragging /\ dp.isSnappedToEdge THEN "snap_dragging"
        ELSE IF dp.isDragging THEN "dragging"
        ELSE IF dp.isSnappedToEdge /\ ~dp.isHovered THEN "snapped"
        ELSE IF dp.isHovered THEN "hovered"
        ELSE "idle"]

\* DrawPoint: set isHovered(value)
SetIsHovered(dp, value) == Done(UpdateVisualState([dp EXCEPT !.isHovered = value]))

\* the isDragging setter freeing the point when a drag starts
SetIsDraggingFreeing(dp, value) ==
    LET flagged == [dp EXCEPT !.isDragging = value]
        freed   == [flagged EXCEPT !.isSnappedToEdge = FALSE,
                                   !.snappedEdgeIndex = Null,
                                   !.edgeParameter = 0,
                                   !.snappedAngle = Null]
        updated == UpdateVisualState(IF value THEN freed ELSE flagged)
    IN  Done(IF ~value THEN [updated EXCEPT !.trailPoints = <<>>] ELSE updated)

\* DrawPoint: set isDragging(value)
SetIsDragging(dp, value) ==
    LET updated == UpdateVisualState([dp EXCEPT !.isDragging = value])
    IN  Done(IF ~value THEN [updated EXCEPT !.trailPoints = <<>>] ELSE updated)

\* Math.min(1, deltaTime * 15), in units of 1/SCALE
LerpFactor(deltaTime) == MathMin(SCALE, deltaTime * 15)

\* DrawPoint.updateAnimation(deltaTime): the position moves towards the target
UpdateAnimation(dp, deltaTime) ==
    LET lerpFactor == LerpFactor(deltaTime)
    IN  Done([dp EXCEPT
              !.position = Pt(
                  dp.position.x
                    + RDiv((dp.targetPosition.x - dp.position.x) * lerpFactor, SCALE),
                  dp.position.y
                    + RDiv((dp.targetPosition.y - dp.position.y) * lerpFactor, SCALE))])

maxTrailPoints == 10

\* DrawPoint._addTrailPoint(): alpha 1.0, the oldest dropped beyond the maximum
AddTrailPoint(dp) ==
    IF dp.isDragging
    THEN LET pushed == Append(dp.trailPoints, SCALE)
         IN  [dp EXCEPT !.trailPoints =
                 IF Len(pushed) > maxTrailPoints THEN Tail(pushed) ELSE pushed]
    ELSE dp

\* DrawPoint.updateTrail(deltaTime): fade every trail point, drop the faded ones
UpdateTrail(dp, deltaTime) ==
    LET faded == [k \in 1..Len(dp.trailPoints) |-> dp.trailPoints[k] - deltaTime * 3]
    IN  Done([dp EXCEPT !.trailPoints = SelectSeq(faded, LAMBDA alpha : alpha > 0)])

\* DrawPoint._clearSnap()
ClearSnap(dp) ==
    [dp EXCEPT !.isSnappedToEdge = FALSE,
               !.snappedEdgeIndex = Null,
               !.edgeParameter = 0,
               !.snappedAngle = Null]

\* setPosition clearing the snap state of an immediate write only
SetPositionKeepingSnap(dp, x, y, immediate) ==
    LET targeted == [dp EXCEPT !.targetPosition = Pt(x, y)]
        moved    == IF immediate THEN [targeted EXCEPT !.position = Pt(x, y)]
                    ELSE targeted
        trailed  == IF moved.isDragging THEN AddTrailPoint(moved) ELSE moved
    IN  Done(IF immediate THEN ClearSnap(trailed) ELSE trailed)

\* DrawPoint.setPosition(x, y, immediate)
SetPosition(dp, x, y, immediate) ==
    LET targeted == [dp EXCEPT !.targetPosition = Pt(x, y)]
        moved    == IF immediate THEN [targeted EXCEPT !.position = Pt(x, y)]
                    ELSE targeted
        trailed  == IF moved.isDragging THEN AddTrailPoint(moved) ELSE moved
    IN  Done(ClearSnap(trailed))

\* DrawPoint.moveBy(dx, dy, immediate)
MoveBy(dp, dx, dy, immediate) ==
    LET target   == Pt(dp.targetPosition.x + dx, dp.targetPosition.y + dy)
        targeted == [dp EXCEPT !.targetPosition = target]
        moved    == IF immediate THEN [targeted EXCEPT !.position = target]
                    ELSE targeted
        trailed  == IF moved.isDragging THEN AddTrailPoint(moved) ELSE moved
    IN  Done(ClearSnap(trailed))

\* DrawPoint.snapToPolygonEdge(polygon, edgeIndex, t)
SnapToPolygonEdge(dp, polygon, edgeIndex, t) ==
    IF "getEdge" \notin Methods(polygon) THEN Failed(dp, TypeError("polygon.getEdge"))
    ELSE LET edge  == GetEdge(polygon, edgeIndex)
             point == EdgeGetPointAt(edge, t)
         IN  Done([dp EXCEPT !.position = Pt(point.x, point.y),
                             !.isSnappedToEdge = TRUE,
                             !.snappedEdgeIndex = Some(edgeIndex),
                             !.edgeParameter = t,
                             !.snappedAngle = Null])

\* DrawPoint.snapToCircleBorder(circle, angle)
SnapToCircleBorder(dp, circle, angle) ==
    IF "getPointOnCircle" \notin Methods(circle)
    THEN Failed(dp, TypeError("circle.getPointOnCircle"))
    ELSE LET point == GetPointOnCircle(circle, angle)
         IN  Done([dp EXCEPT !.position = Pt(point.x, point.y),
                             !.isSnappedToEdge = TRUE,
                             !.snappedEdgeIndex = Null,
                             !.edgeParameter = 0,
                             !.snappedAngle = Some(angle)])

\* DrawPoint.snapToNearestPolygonEdge(polygon)
SnapToNearestPolygonEdge(dp, polygon) ==
    IF "findClosestEdge" \notin Methods(polygon)
    THEN Failed(dp, TypeError("polygon.findClosestEdge"))
    ELSE LET result == FindClosestEdge(polygon, dp.position)
         IN  Done([dp EXCEPT !.position = Pt(result.closestPoint.x, result.closestPoint.y),
                             !.isSnappedToEdge = TRUE,
                             !.snappedEdgeIndex = Some(result.edgeIndex),
                             !.edgeParameter = result.t,
                             !.snappedAngle = Null])

\* DrawPoint.snapToCircle(circle)
SnapToCircle(dp, circle) ==
    IF "projectToBorder" \notin Methods(circle)
    THEN Failed(dp, TypeError("circle.projectToBorder"))
    ELSE LET projected == ProjectToBorder(circle, dp.position)
         IN  Done([dp EXCEPT !.position = Pt(projected.x, projected.y),
                             !.isSnappedToEdge = TRUE,
                             !.snappedEdgeIndex = Null,
                             !.edgeParameter = 0,
                             !.snappedAngle = Some(projected.angle)])

\* DrawPoint.snapToShape(shape)
SnapToShape(dp, shape) ==
    IF IsPolygon(shape) THEN SnapToNearestPolygonEdge(dp, shape)
    ELSE IF IsCircle(shape) THEN SnapToCircle(dp, shape)
    ELSE Failed(dp, "Error: Forma no soportada para snap")

\* DrawPoint.resetToCircleTop(circle)
ResetToCircleTop(dp, circle) ==
    IF "getTopPoint" \notin Methods(circle)
    THEN Failed(dp, TypeError("circle.getTopPoint"))
    ELSE LET topPoint == GetTopPoint(circle)
         IN  Done([dp EXCEPT !.position = Pt(topPoint.x, topPoint.y),
                             !.isSnappedToEdge = TRUE,
                             !.snappedAngle = Some(HALF_PI),
                             !.snappedEdgeIndex = Null,
                             !.edgeParameter = 0])

\* DrawPoint.resetToPolygonTop(polygon)
ResetToPolygonTop(dp, polygon) ==
    IF "getTopVertex" \notin Methods(polygon)
    THEN Failed(dp, TypeError("polygon.getTopVertex"))
    ELSE LET topVertex == GetTopVertex(polygon)
         IN  Done([dp EXCEPT !.position = Pt(topVertex.x, topVertex.y),
                             !.isSnappedToEdge = TRUE,
                             !.snappedEdgeIndex = Some(topVertex.index),
                             !.edgeParameter = 0,
                             !.snappedAngle = Null])

\* DrawPoint.resetToShapeTop(shape)
ResetToShapeTop(dp, shape) ==
    IF IsPolygon(shape) THEN ResetToPolygonTop(dp, shape)
    ELSE IF IsCircle(shape) THEN ResetToCircleTop(dp, shape)
    ELSE Failed(dp, "Error: Forma no soportada")

\* ===========================================================================
\* State
\* ===========================================================================

VARIABLES
    genShape,       \* generate: the shape argument
    genDrawPoint,   \* generate: the drawPoint argument {x, y}
    genCycles,      \* generate: the cycles argument
    genResult,      \* generate: Null before the call, then the call's result
    drawPoint,      \* the DrawPoint object
    snapShape,      \* the shape the trace point was last snapped to (history)
    lastCall,       \* the last method called on the trace point and its outcome
    app,            \* CyclogonApp: state, _lastUpdateTime, _pendingUpdate
    shapeModel,     \* ConfigPanelView._shapeModel
    currentCyclogon, \* CyclogonApp.currentCyclogon: Null or the curve object
    generatedCurve, \* the curve as generate returned it (history)
    input,          \* InputController: the fields its handlers read and write
    now,            \* performance.now(), in ms
    timers,         \* the due times of the setTimeout callbacks not yet run
    curves,         \* the curves generate returns for the application's inputs
    curve,          \* a Cyclogon object under test: its _points
    heap,           \* the objects the samples refer to: address -> {x, y}
    held,           \* what the caller of the curve's methods holds
    callLog         \* the calls made, in turn (history)

genVars == <<genShape, genDrawPoint, genCycles, genResult>>

dpVars == <<drawPoint, snapShape, lastCall>>

curveVars == <<curve, heap, held>>

appVars == <<app, shapeModel, currentCyclogon, generatedCurve, input, now, timers, curves,
             curveVars, callLog>>

vars == <<genShape, genDrawPoint, genCycles, genResult, drawPoint, snapShape, lastCall,
          app, shapeModel, currentCyclogon, generatedCurve, input, now, timers, curves,
          curve, heap, held, callLog>>

\* CONFIG.SHAPES.DEFAULT_RADIUS: 1.0
DEFAULT_RADIUS == 100

\* CONFIG.SHAPES.MIN_POLYGON_SIDES
MIN_POLYGON_SIDES == 3

\* the largest number of sides of the polygons under analysis
MaxSides == 4

\* the state of the trace point that ConfigPanelView._initDrawPoint creates
DrawPointInit ==
    /\ drawPoint = DrawPoint(0, DEFAULT_RADIUS)
    /\ snapShape = Null
    /\ lastCall = [op |-> "new DrawPoint", shape |-> Null,
                   outcome |-> "returned", error |-> ""]

GenIdle ==
    /\ genShape = OtherShape
    /\ genDrawPoint = Pt(0, 0)
    /\ genCycles = SCALE
    /\ genResult = Null

\* CONFIG.SHAPES.DEFAULT_POLYGON_SIDES
DEFAULT_POLYGON_SIDES == 3

\* CONFIG.CYCLOGON.DEFAULT_CYCLES: 1
DEFAULT_CYCLES == 100

\* CyclogonApp._updateThrottle, in ms
UpdateThrottle == 16

\* new CyclogonApp(): the state, and the fields of the throttle
AppConstructed ==
    [shapeType |-> "circle",
     polygonSides |-> DEFAULT_POLYGON_SIDES,
     cycles |-> DEFAULT_CYCLES,
     isShiftPressed |-> FALSE,
     isDragging |-> FALSE,
     lastUpdateTime |-> 0,
     pendingUpdate |-> FALSE]

\* new InputController(canvas, camera)
InputConstructed ==
    [isSnapModeActive |-> FALSE,
     isDragging |-> FALSE,
     isHovering |-> FALSE,
     worldPosition |-> Pt(0, 0),
     clicked |-> FALSE]     \* _lastClickTime is within the double-click threshold

\* what the caller of a curve's methods holds: the method called last, its
\* argument, what it returned, and whether the caller has written to that;
\* before is the curve's _points when the method was called (history)
Held(op, argument, value) ==
    [op |-> op, argument |-> argument, value |-> value, modified |-> FALSE,
     before |-> curve]

\* no curve under test, no call made
CurveIdle ==
    /\ curve = <<>>
    /\ heap = <<>>
    /\ held = Held("none", Null, <<>>)
    /\ callLog = <<>>

\* the page before init() has run
PageIdle ==
    /\ app = AppConstructed
    /\ shapeModel = Circle(DEFAULT_RADIUS, Pt(0, 0))
    /\ currentCyclogon = Null
    /\ generatedCurve = Null
    /\ input = InputConstructed
    /\ now = 0
    /\ timers = {}

\* the application before init() has run
AppIdle == PageIdle /\ curves = {} /\ CurveIdle

\* ===========================================================================
\* The generator applied to bounded inputs
\* ===========================================================================

\* the rotation offset ConfigPanelView gives a polygon: -pi/2 + pi/sides
RestingOffset(sides) == -HALF_PI + RDiv(PI, sides)

GenShapes ==
    {Circle(DEFAULT_RADIUS, Pt(0, 0)), Circle(2 * DEFAULT_RADIUS, Pt(0, 0)),
     OtherShape, NullShape}
    \cup {Polygon(n, DEFAULT_RADIUS, -HALF_PI) : n \in MIN_POLYGON_SIDES..MaxSides}
    \cup {Polygon(n, DEFAULT_RADIUS, RestingOffset(n)) : n \in MIN_POLYGON_SIDES..MaxSides}

GenDrawPoints == {Pt(0, 0), Pt(0, 100), Pt(100, 0), Pt(-60, -80), Pt(150, 50)}

\* cycle counts, in units of 1/SCALE: -1, -0.5, 0, 0.5, 1, 1.25, 1.5, 2
GenCycles == {-100, -50, 0, 50, 100, 125, 150, 200}

GenInit ==
    /\ genShape \in GenShapes
    /\ genDrawPoint \in GenDrawPoints
    /\ genCycles \in GenCycles
    /\ genResult = Null
    /\ DrawPointInit
    /\ AppIdle

\* calculator.generate(genShape, genDrawPoint, genCycles)
CallGenerate ==
    /\ genResult = Null
    /\ genResult' = Some(Generate(genShape, genDrawPoint, genCycles))
    /\ UNCHANGED <<genShape, genDrawPoint, genCycles, dpVars, appVars>>

GenNext == CallGenerate

SpecGen == GenInit /\ [][GenNext]_vars

\* the call of generate has ended
GenCalled == genResult # Null

GenReturned == GenCalled /\ genResult[1].outcome = "returned"

GenThrown == GenCalled /\ genResult[1].outcome = "thrown"

GenSupported == IsCircle(genShape) \/ IsPolygon(genShape)

\* C1: a call of generate with cycles <= 0, for a Circle or a Polygon, ends
\* with an error and returns no curve.
C1_NonPositiveCyclesRejected ==
    (GenCalled /\ GenSupported /\ genCycles <= 0) => GenThrown

\* C2: a call of generate with a shape that is neither a Circle nor a Polygon
\* (null included) ends with an error thrown by the call itself, and no curve
\* is returned.
C2_UnsupportedShapeThrows ==
    (GenCalled /\ ~GenSupported) =>
        /\ genResult[1].outcome = "thrown"
        /\ "value" \notin DOMAIN genResult[1]

C2_Witness ==
    /\ GenThrown
    /\ genShape \in {OtherShape, NullShape}
    /\ genResult[1].error = "Error: Forma no soportada. Use Circle o Polygon."

\* theta strictly increases along the samples of a cycloid
ThetaIncreasing(points) ==
    \A i \in 1..(Len(points) - 1) : points[i].theta < points[i + 1].theta

\* along the samples of a cyclogon the total rotation strictly increases and
\* sideIndex never decreases
RotationIncreasing(points) ==
    \A i \in 1..(Len(points) - 1) :
        /\ points[i].rotation < points[i + 1].rotation
        /\ points[i].sideIndex <= points[i + 1].sideIndex

\* C5: the samples of a returned curve are in strictly increasing parametric
\* order: theta strictly increases along a cycloid; along a cyclogon the total
\* rotation strictly increases and sideIndex never decreases.
C5_SamplesInParametricOrder ==
    GenReturned =>
        IF genResult[1].value.type = "cycloid"
        THEN ThetaIncreasing(genResult[1].value.points)
        ELSE RotationIncreasing(genResult[1].value.points)

C5_Witness ==
    /\ GenReturned
    /\ genResult[1].value.type = "cyclogon"
    /\ genCycles > SCALE
    /\ LET points == genResult[1].value.points
       IN  /\ Len(points) > 2 * PointsPerSide
           /\ points[Len(points)].sideIndex > points[1].sideIndex
           /\ FractionalPart(genCycles * genShape.sides) # 0

\* ===========================================================================
\* The trace point under arbitrary sequences of calls
\* ===========================================================================

\* the largest number of trail points kept while calls are explored
MaxTrail == 1

\* the largest coordinate moveBy may bring the target to
CoordLimit == 100

DPCircle == Circle(DEFAULT_RADIUS, Pt(0, 0))

DPPolygon == Polygon(MIN_POLYGON_SIDES, DEFAULT_RADIUS, RestingOffset(MIN_POLYGON_SIDES))

\* the shapes passed to the operations written for one kind of shape
DPShapes == {DPCircle, DPPolygon}

\* the values passed to the operations written for any shape
DPAnyShapes == {DPCircle, DPPolygon, OtherShape}

\* arguments of setPosition
DPPositions == {Pt(150, 40)}

\* arguments of moveBy
DPDeltas == {Pt(100, 0)}

\* arguments of snapToPolygonEdge: edge indices and edge parameters (0.5 is 50)
DPEdgeIndices == {1, 3}

DPEdgeParameters == {50, 150}

\* arguments of snapToCircleBorder, in degrees
DPAngles == {200}

\* frame times of updateAnimation, in units of 1/SCALE seconds (a frame of 0.4 s:
\* the position reaches the target, lerpFactor is 1)
DPDeltaTimes == {40}

\* frame times of updateTrail
DPTrailDeltaTimes == {40}

DPInit == GenIdle /\ DrawPointInit /\ AppIdle

\* what is recorded of a call on the trace point (shape is Some(shape) for the
\* operations that take one, else Null)
CallRecord(op, shape, result) ==
    [op |-> op, shape |-> shape, outcome |-> result.outcome, error |-> result.error]

\* the shape last snapped to, after a call
SnapShapeAfter(shape, result) ==
    IF result.outcome = "returned" /\ shape # Null THEN shape ELSE snapShape

\* room for the trail point a position write adds while dragging
TrailHasRoom == ~drawPoint.isDragging \/ Len(drawPoint.trailPoints) < MaxTrail

DPSetIsHovered ==
    \E value \in BOOLEAN :
        \E result \in {SetIsHovered(drawPoint, value)} :
            /\ drawPoint' = result.self
            /\ lastCall' = CallRecord("isHovered", Null, result)
            /\ UNCHANGED <<snapShape, genVars, appVars>>

DPSetIsDragging ==
    \E value \in BOOLEAN :
        \E result \in {SetIsDragging(drawPoint, value)} :
            /\ drawPoint' = result.self
            /\ lastCall' = CallRecord("isDragging", Null, result)
            /\ UNCHANGED <<snapShape, genVars, appVars>>

DPUpdateAnimation ==
    \E deltaTime \in DPDeltaTimes :
        \E result \in {UpdateAnimation(drawPoint, deltaTime)} :
            /\ drawPoint' = result.self
            /\ lastCall' = CallRecord("updateAnimation", Null, result)
            /\ UNCHANGED <<snapShape, genVars, appVars>>

DPUpdateTrail ==
    \E deltaTime \in DPTrailDeltaTimes :
        \E result \in {UpdateTrail(drawPoint, deltaTime)} :
            /\ drawPoint' = result.self
            /\ lastCall' = CallRecord("updateTrail", Null, result)
            /\ UNCHANGED <<snapShape, genVars, appVars>>

DPSetPosition ==
    \E point \in DPPositions, immediate \in BOOLEAN :
        \E result \in {SetPosition(drawPoint, point.x, point.y, immediate)} :
            /\ TrailHasRoom
            /\ drawPoint' = result.self
            /\ lastCall' = CallRecord("setPosition", Null, result)
            /\ UNCHANGED <<snapShape, genVars, appVars>>

DPMoveBy ==
    \E delta \in DPDeltas, immediate \in BOOLEAN :
        \E result \in {MoveBy(drawPoint, delta.x, delta.y, immediate)} :
            /\ TrailHasRoom
            /\ Abs(drawPoint.targetPosition.x + delta.x) <= CoordLimit
            /\ Abs(drawPoint.targetPosition.y + delta.y) <= CoordLimit
            /\ drawPoint' = result.self
            /\ lastCall' = CallRecord("moveBy", Null, result)
            /\ UNCHANGED <<snapShape, genVars, appVars>>

DPSnapToPolygonEdge ==
    \E shape \in DPShapes, edgeIndex \in DPEdgeIndices, t \in DPEdgeParameters :
        \E result \in {SnapToPolygonEdge(drawPoint, shape, edgeIndex, t)} :
            /\ drawPoint' = result.self
            /\ lastCall' = CallRecord("snapToPolygonEdge", Some(shape), result)
            /\ snapShape' = SnapShapeAfter(Some(shape), result)
            /\ UNCHANGED <<genVars, appVars>>

DPSnapToCircleBorder ==
    \E shape \in DPShapes, angle \in DPAngles :
        \E result \in {SnapToCircleBorder(drawPoint, shape, angle)} :
            /\ drawPoint' = result.self
            /\ lastCall' = CallRecord("snapToCircleBorder", Some(shape), result)
            /\ snapShape' = SnapShapeAfter(Some(shape), result)
            /\ UNCHANGED <<genVars, appVars>>

DPSnapToNearestPolygonEdge ==
    \E shape \in DPShapes :
        \E result \in {SnapToNearestPolygonEdge(drawPoint, shape)} :
            /\ drawPoint' = result.self
            /\ lastCall' = CallRecord("snapToNearestPolygonEdge", Some(shape), result)
            /\ snapShape' = SnapShapeAfter(Some(shape), result)
            /\ UNCHANGED <<genVars, appVars>>

DPSnapToCircle ==
    \E shape \in DPShapes :
        \E result \in {SnapToCircle(drawPoint, shape)} :
            /\ drawPoint' = result.self
            /\ lastCall' = CallRecord("snapToCircle", Some(shape), result)
            /\ snapShape' = SnapShapeAfter(Some(shape), result)
            /\ UNCHANGED <<genVars, appVars>>

DPSnapToShape ==
    \E shape \in DPAnyShapes :
        \E result \in {SnapToShape(drawPoint, shape)} :
            /\ drawPoint' = result.self
            /\ lastCall' = CallRecord("snapToShape", Some(shape), result)
            /\ snapShape' = SnapShapeAfter(Some(shape), result)
            /\ UNCHANGED <<genVars, appVars>>

DPResetToCircleTop ==
    \E shape \in DPShapes :
        \E result \in {ResetToCircleTop(drawPoint, shape)} :
            /\ drawPoint' = result.self
            /\ lastCall' = CallRecord("resetToCircleTop", Some(shape), result)
            /\ snapShape' = SnapShapeAfter(Some(shape), result)
            /\ UNCHANGED <<genVars, appVars>>

DPResetToPolygonTop ==
    \E shape \in DPShapes :
        \E result \in {ResetToPolygonTop(drawPoint, shape)} :
            /\ drawPoint' = result.self
            /\ lastCall' = CallRecord("resetToPolygonTop", Some(shape), result)
            /\ snapShape' = SnapShapeAfter(Some(shape), result)
            /\ UNCHANGED <<genVars, appVars>>

DPResetToShapeTop ==
    \E shape \in DPAnyShapes :
        \E result \in {ResetToShapeTop(drawPoint, shape)} :
            /\ drawPoint' = result.self
            /\ lastCall' = CallRecord("resetToShapeTop", Some(shape), result)
            /\ snapShape' = SnapShapeAfter(Some(shape), result)
            /\ UNCHANGED <<genVars, appVars>>

DPNext ==
    \/ DPSetIsHovered
    \/ DPSetIsDragging
    \/ DPUpdateAnimation
    \/ DPUpdateTrail
    \/ DPSetPosition
    \/ DPMoveBy
    \/ DPSnapToPolygonEdge
    \/ DPSnapToCircleBorder
    \/ DPSnapToNearestPolygonEdge
    \/ DPSnapToCircle
    \/ DPSnapToShape
    \/ DPResetToCircleTop
    \/ DPResetToPolygonTop
    \/ DPResetToShapeTop

SpecDP == DPInit /\ [][DPNext]_vars

\* the snap state of the trace point
SnapState(dp) ==
    <<dp.isSnappedToEdge, dp.snappedEdgeIndex, dp.edgeParameter, dp.snappedAngle>>

\* SnappedToEdge: snapped with an edge recorded; SnappedToBorder: with an angle
SnappedToEdge(dp) == dp.isSnappedToEdge /\ dp.snappedEdgeIndex # Null

SnappedToBorder(dp) == dp.isSnappedToEdge /\ dp.snappedAngle # Null

\* the position is the boundary point of shape that the snap state records
OnRecordedBoundary(dp, shape) ==
    IF SnappedToEdge(dp)
    THEN /\ IsPolygon(shape)
         /\ dp.position = EdgeGetPointAt(GetEdge(shape, dp.snappedEdgeIndex[1]),
                                         dp.edgeParameter)
    ELSE /\ SnappedToBorder(dp)
         /\ IsCircle(shape)
         /\ dp.position = GetPointOnCircle(shape, dp.snappedAngle[1])

\* C6: whenever the snap state is not Free, the position is exactly the point
\* of the boundary of the shape snapped to that the snap state records (the
\* point of the recorded edge at the recorded parameter, or the border point
\* at the recorded angle), after any calls made while the state stays snapped.
C6_SnappedOnBoundary ==
    drawPoint.isSnappedToEdge =>
        /\ snapShape # Null
        /\ OnRecordedBoundary(drawPoint, snapShape[1])

PositionWrites == {"setPosition", "moveBy"}

\* C7: right after setPosition or moveBy, immediate or not, the snap state is
\* Free: isSnappedToEdge is false, the edge index and the angle are cleared.
C7_PositionWriteFrees ==
    lastCall.op \in PositionWrites =>
        /\ ~drawPoint.isSnappedToEdge
        /\ drawPoint.snappedEdgeIndex = Null
        /\ drawPoint.snappedAngle = Null

\* a position write that is not immediate, made after a snap
C7_Witness ==
    /\ lastCall.op = "setPosition"
    /\ snapShape # Null
    /\ drawPoint.position # drawPoint.targetPosition
    /\ ~drawPoint.isSnappedToEdge

SnapOperations ==
    {"snapToPolygonEdge", "snapToCircleBorder", "snapToNearestPolygonEdge",
     "snapToCircle", "snapToShape", "resetToCircleTop", "resetToPolygonTop",
     "resetToShapeTop"}

NonSnapOperations == {"isHovered", "isDragging", "updateAnimation", "updateTrail"}

\* C8: a step that takes the snap state from Free to snapped is a call of a
\* snap operation, and a call of the hover or drag setter, of updateAnimation
\* or of updateTrail leaves the snap state as it was.
C8_SnapOnlyBySnapOperations ==
    [][/\ (~drawPoint.isSnappedToEdge /\ drawPoint'.isSnappedToEdge)
            => lastCall'.op \in SnapOperations
       /\ (lastCall' # lastCall /\ lastCall'.op \in NonSnapOperations)
            => SnapState(drawPoint') = SnapState(drawPoint)]_vars

\* the drag flag has been set on a snapped point, which is still snapped
C8_Witness ==
    /\ lastCall.op = "isDragging"
    /\ drawPoint.isDragging
    /\ drawPoint.isSnappedToEdge
    /\ snapShape # Null

\* C9: in the SnappedToEdge state the recorded parameter t is in [0, 1] and
\* the recorded edgeIndex is one of 0..n-1 for the polygon snapped to.
C9_RecordedEdgeInRange ==
    SnappedToEdge(drawPoint) =>
        /\ snapShape # Null
        /\ IsPolygon(snapShape[1])
        /\ drawPoint.edgeParameter >= 0
        /\ drawPoint.edgeParameter <= SCALE
        /\ drawPoint.snappedEdgeIndex[1] \in 0..(snapShape[1].sides - 1)

PolygonOperations == {"snapToPolygonEdge", "snapToNearestPolygonEdge", "resetToPolygonTop"}

CircleOperations == {"snapToCircleBorder", "snapToCircle", "resetToCircleTop"}

\* the call is one of an operation written for one kind of shape, made with a
\* shape of the other kind
MismatchedCall(call) ==
    \/ call.op \in PolygonOperations /\ call.shape # Null /\ IsCircle(call.shape[1])
    \/ call.op \in CircleOperations /\ call.shape # Null /\ IsPolygon(call.shape[1])

\* the errors with which the code rejects a shape it does not support
UnsupportedShapeErrors ==
    {"Error: Forma no soportada. Use Circle o Polygon.",
     "Error: Forma no soportada para snap",
     "Error: Forma no soportada"}

\* C10: a call of a snap method written for one kind of shape with a shape of
\* the other kind fails with an UnsupportedShape error and leaves the position
\* and the snap state of the trace point unchanged.
C10_MismatchedShapeRejected ==
    [][(lastCall' # lastCall /\ MismatchedCall(lastCall')) =>
          /\ lastCall'.outcome = "thrown"
          /\ lastCall'.error \in UnsupportedShapeErrors
          /\ drawPoint'.position = drawPoint.position
          /\ SnapState(drawPoint') = SnapState(drawPoint)]_vars

\* ===========================================================================
\* The application: CyclogonApp (app.js), its ConfigPanelView and its
\* InputController
\*
\* A handler is an operator from the objects it works on, gathered in one
\* record, to these objects after the handler has run.  The DOM, the Three.js
\* scene and the status texts are left out.
\* ===========================================================================

\* the objects the handlers read and write
World ==
    [app |-> app,
     shapeModel |-> shapeModel,
     drawPoint |-> drawPoint,
     currentCyclogon |-> currentCyclogon,
     generatedCurve |-> generatedCurve,
     timers |-> timers]

\* the world positions of the mouse events
MousePositions == {Pt(0, 100), Pt(150, 40)}

\* the values of the cycles slider
AppCycles == {50}

\* generate is a pure function of its arguments: its results for the calls the
\* application can make (one of its shapes, the trace point at the shape's top
\* or at a mouse position, a cycle count of the slider) are computed once, when
\* the application starts, and kept in the variable curves
GeneratedCurves ==
    LET shapes == {Circle(DEFAULT_RADIUS, Pt(0, 0))}
                  \cup {Polygon(n, DEFAULT_RADIUS, RestingOffset(n)) :
                           n \in MIN_POLYGON_SIDES..MaxSides}
        top(shape) == IF IsCircle(shape) THEN GetTopPoint(shape)
                      ELSE GetTopVertex(shape)
        calls == {[shape |-> shape, point |-> point, cycles |-> cycles] :
                     shape \in shapes, point \in MousePositions,
                     cycles \in AppCycles \cup {DEFAULT_CYCLES}}
                 \cup {[shape |-> shape, point |-> Pt(top(shape).x, top(shape).y),
                        cycles |-> cycles] :
                     shape \in shapes, cycles \in AppCycles \cup {DEFAULT_CYCLES}}
    IN  {[shape |-> call.shape, point |-> call.point, cycles |-> call.cycles,
          result |-> Generate(call.shape, call.point, call.cycles)] : call \in calls}

\* cyclogonCalculator.generate(shape, point, cycles), as computed at the start
GenerateOnce(shape, point, cycles) ==
    (CHOOSE hit \in curves :
        hit.cycles = cycles /\ hit.point = point /\ hit.shape = shape).result

\* ConfigPanelView.getDrawPointInfo(): x and y are the getters of _position
GetDrawPointInfo(w) == Pt(w.drawPoint.position.x, w.drawPoint.position.y)

\* the try block of updateCyclogon, given the result of generate: a curve that
\* generate returns replaces the current one, an error of generate is logged
\* and the current curve stays
CurveReplaced(w, result) ==
    IF result.outcome = "returned"
    THEN [w EXCEPT !.currentCyclogon = Some(result.value),
                   !.generatedCurve = Some(result.value)]
    ELSE w

\* CyclogonApp.updateCyclogon()
UpdateCyclogon(w) ==
    CurveReplaced(w, GenerateOnce(w.shapeModel, GetDrawPointInfo(w), w.app.cycles))

\* the test of throttledUpdateCyclogon at time t: the throttle interval has
\* passed since _lastUpdateTime
ThrottleOpen(w, t) == t - w.app.lastUpdateTime >= UpdateThrottle

\* throttledUpdateCyclogon putting a call off without a timer
ThrottledUpdateWithoutTimer(w, t) ==
    IF ThrottleOpen(w, t)
    THEN LET updated == UpdateCyclogon([w EXCEPT !.app.lastUpdateTime = t])
         IN  [updated EXCEPT !.app.pendingUpdate = FALSE]
    ELSE IF ~w.app.pendingUpdate
    THEN [w EXCEPT !.app.pendingUpdate = TRUE]
    ELSE w

\* CyclogonApp.throttledUpdateCyclogon() at time t
ThrottledUpdateCyclogon(w, t) ==
    IF ThrottleOpen(w, t)
    THEN LET updated == UpdateCyclogon([w EXCEPT !.app.lastUpdateTime = t])
         IN  [updated EXCEPT !.app.pendingUpdate = FALSE]
    ELSE IF ~w.app.pendingUpdate
    THEN [w EXCEPT !.app.pendingUpdate = TRUE,
                   !.timers = w.timers \cup {t + UpdateThrottle}]
    ELSE w

\* the callback that throttledUpdateCyclogon hands to setTimeout, run at time t
ThrottleTimeout(w, t) ==
    IF w.app.pendingUpdate
    THEN LET updated == UpdateCyclogon(w)
         IN  [updated EXCEPT !.app.pendingUpdate = FALSE,
                             !.app.lastUpdateTime = t]
    ELSE w

\* the resets of the trace point's flags that setCircle, setPolygon and
\* updatePolygonSides make before they reposition it
ResetPointFlags(dp) == SetIsHovered(SetIsDragging(dp, FALSE).self, FALSE).self

\* ConfigPanelView.setCircle(radius)
SetCircle(w, radius) ==
    LET circle == Circle(radius, Pt(0, 0))
    IN  [w EXCEPT !.shapeModel = circle,
                  !.drawPoint = ResetToCircleTop(ResetPointFlags(w.drawPoint), circle).self]

\* ConfigPanelView.setPolygon(sides, radius)
SetPolygon(w, sides, radius) ==
    LET polygon == Polygon(sides, radius, RestingOffset(sides))
    IN  [w EXCEPT !.shapeModel = polygon,
                  !.drawPoint = ResetToPolygonTop(ResetPointFlags(w.drawPoint), polygon).self]

\* ConfigPanelView.updatePolygonSides(sides)
UpdatePolygonSides(w, sides) ==
    IF ~IsPolygon(w.shapeModel) THEN w
    ELSE SetPolygon(w, sides, w.shapeModel.radius)

\* ConfigPanelView.moveDrawPoint(x, y, snap): the snap branch calls
\* setPositionForSnap, which the DrawPoint class does not define
MoveDrawPoint(dp, x, y, snap) ==
    IF snap
    THEN Failed(dp, TypeError("this._drawPointModel.setPositionForSnap"))
    ELSE SetPosition(dp, x, y, FALSE)

\* the DRAG_START listener
OnDragStart(w) ==
    [w EXCEPT !.app.isDragging = TRUE,
              !.drawPoint = SetIsDragging(w.drawPoint, TRUE).self]

\* the DRAG_MOVE listener at time t: an error of moveDrawPoint ends the
\* listener (InputController._emit catches and logs it)
OnDragMove(w, worldPos, snapMode, t) ==
    LET moved == MoveDrawPoint(w.drawPoint, worldPos.x, worldPos.y, snapMode)
    IN  IF moved.outcome = "thrown" THEN w
        ELSE ThrottledUpdateCyclogon([w EXCEPT !.drawPoint = moved.self], t)

\* the DRAG_END listener
OnDragEnd(w) ==
    [w EXCEPT !.app.isDragging = FALSE,
              !.drawPoint = SetIsDragging(w.drawPoint, FALSE).self]

\* the HOVER_ENTER and HOVER_LEAVE listeners
OnHover(w, value) == [w EXCEPT !.drawPoint = SetIsHovered(w.drawPoint, value).self]

\* the SNAP_MODE_CHANGE listener
OnSnapModeChange(w, isActive, worldPos) ==
    LET pressed == [w EXCEPT !.app.isShiftPressed = isActive]
        moved   == MoveDrawPoint(w.drawPoint, worldPos.x, worldPos.y, isActive)
    IN  IF ~w.app.isDragging \/ moved.outcome = "thrown" THEN pressed
        ELSE UpdateCyclogon([pressed EXCEPT !.drawPoint = moved.self])

\* the DOUBLE_CLICK listener, and the shape setting that the shape selector
\* and it share
SetShapeOfType(w) ==
    IF w.app.shapeType = "circle" THEN SetCircle(w, DEFAULT_RADIUS)
    ELSE SetPolygon(w, w.app.polygonSides, DEFAULT_RADIUS)

OnDoubleClick(w) == UpdateCyclogon(SetShapeOfType(w))

\* the 'change' listener of the shape selector
OnShapeChange(w, type) ==
    UpdateCyclogon(SetShapeOfType([w EXCEPT !.app.shapeType = type,
                                            !.app.isDragging = FALSE]))

\* the 'click' listeners of sidesMinus (by = -1) and sidesPlus (by = 1),
\* past their guards
OnSidesChange(w, by) ==
    LET sides == w.app.polygonSides + by
    IN  UpdateCyclogon(UpdatePolygonSides([w EXCEPT !.app.isDragging = FALSE,
                                                    !.app.polygonSides = sides],
                                          sides))

\* the 'input' listener of the cycles slider
OnCyclesInput(w, value) == UpdateCyclogon([w EXCEPT !.app.cycles = value])

\* CyclogonApp.resetToInitialState()
ResetToInitialState(w) ==
    UpdateCyclogon(SetCircle([w EXCEPT !.app.shapeType = "circle",
                                       !.app.polygonSides = DEFAULT_POLYGON_SIDES,
                                       !.app.cycles = DEFAULT_CYCLES,
                                       !.app.isDragging = FALSE],
                             DEFAULT_RADIUS))

\* CyclogonApp.exportCyclogon() at time t, up to the download: the export's
\* metadata are set on the current curve object
ExportCyclogon(w, t) ==
    IF w.currentCyclogon = Null \/ IsEmpty(w.currentCyclogon[1]) THEN w
    ELSE [w EXCEPT !.currentCyclogon = Some(SetMetadata(w.currentCyclogon[1],
              [shapeType |-> w.app.shapeType,
               sides |-> IF w.app.shapeType = "polygon" THEN w.app.polygonSides
                         ELSE Null,
               cycles |-> w.app.cycles,
               exportedAt |-> t]))]

\* DrawPoint.containsPoint(point, tolerance) with the tolerance 0.1 of
\* ConfigPanelView.isPointOverDrawPoint: the hit test of the InputController
DRAW_POINT_RADIUS == 8

ContainsPoint(dp, point) ==
    LET dx == dp.position.x - point.x
        dy == dp.position.y - point.y
    IN  MathSqrt(dx * dx + dy * dy) <= DRAW_POINT_RADIUS + 10

\* InputController.reset()
InputReset(in) == [in EXCEPT !.isDragging = FALSE, !.isHovering = FALSE]

\* ConfigPanelView.render(): one frame of the trace point's animation
Render(dp, deltaTime) == UpdateTrail(UpdateAnimation(dp, deltaTime).self, deltaTime).self

\* ===========================================================================
\* Spec: the running application.  Each action is one event of the browser:
\* a mouse or key event on the configuration canvas, a control of the page,
\* a due timer, an animation frame, or the passing of time.
\* ===========================================================================

\* the end of the modelled time, in ms
MaxTime == 32

\* CONFIG.SHAPES.MAX_POLYGON_SIDES
MAX_POLYGON_SIDES == 20

\* the time between two frames, in units of 1/SCALE s
AppDeltaTimes == {40}

\* the state after new CyclogonApp() and init(): the default circle, the
\* trace point at its top, the first curve generated
AppInit ==
    /\ GenIdle
    /\ CurveIdle
    /\ curves = GeneratedCurves
    /\ snapShape = Null
    /\ lastCall = [op |-> "new DrawPoint", shape |-> Null, outcome |-> "returned", error |-> ""]
    /\ \E w \in {UpdateCyclogon([app |-> AppConstructed,
                                 shapeModel |-> Circle(DEFAULT_RADIUS, Pt(0, 0)),
                                 drawPoint |-> DrawPoint(0, DEFAULT_RADIUS),
                                 currentCyclogon |-> Null,
                                 generatedCurve |-> Null,
                                 timers |-> {}])} :
            /\ app = w.app
            /\ shapeModel = w.shapeModel
            /\ drawPoint = w.drawPoint
            /\ currentCyclogon = w.currentCyclogon
            /\ generatedCurve = w.generatedCurve
            /\ timers = w.timers
    /\ input = InputConstructed
    /\ now = UpdateThrottle

\* InputController._onMouseDown: a press on the trace point starts a drag, and
\* is a double click when it follows another press
MouseDown ==
    \E point \in MousePositions :
        \E w \in {IF ~ContainsPoint(drawPoint, point) THEN World
                   ELSE IF input.clicked THEN OnDoubleClick(OnDragStart(World))
                   ELSE OnDragStart(World)} :
            /\ app' = w.app
            /\ shapeModel' = w.shapeModel
            /\ drawPoint' = w.drawPoint
            /\ currentCyclogon' = w.currentCyclogon
            /\ generatedCurve' = w.generatedCurve
            /\ timers' = w.timers
            /\ input' = IF ContainsPoint(drawPoint, point)
                        THEN [input EXCEPT !.worldPosition = point,
                                           !.isDragging = TRUE,
                                           !.clicked = TRUE]
                        ELSE [input EXCEPT !.worldPosition = point]
            /\ UNCHANGED <<now, snapShape, lastCall, curves, curveVars, callLog, genVars>>

\* InputController._onMouseMove: a move of the drag, or the hover test
MouseMove ==
    \E point \in MousePositions :
        \E w \in {IF input.isDragging
                   THEN OnDragMove(World, point, input.isSnapModeActive, now)
                   ELSE IF ContainsPoint(drawPoint, point) /\ ~input.isHovering
                   THEN OnHover(World, TRUE)
                   ELSE IF ~ContainsPoint(drawPoint, point) /\ input.isHovering
                   THEN OnHover(World, FALSE)
                   ELSE World} :
            /\ Len(w.drawPoint.trailPoints) <= MaxTrail
            /\ app' = w.app
            /\ shapeModel' = w.shapeModel
            /\ drawPoint' = w.drawPoint
            /\ currentCyclogon' = w.currentCyclogon
            /\ generatedCurve' = w.generatedCurve
            /\ timers' = w.timers
            /\ input' = [input EXCEPT !.worldPosition = point,
                                      !.isHovering =
                                          IF input.isDragging THEN input.isHovering
                                          ELSE ContainsPoint(drawPoint, point)]
            /\ UNCHANGED <<now, snapShape, lastCall, curves, curveVars, callLog, genVars>>

\* InputController._onMouseUp
MouseUp ==
    \E point \in MousePositions :
        /\ input.isDragging
        /\ \E w \in {OnDragEnd(World)} :
               /\ app' = w.app
               /\ shapeModel' = w.shapeModel
               /\ drawPoint' = w.drawPoint
               /\ currentCyclogon' = w.currentCyclogon
               /\ generatedCurve' = w.generatedCurve
               /\ timers' = w.timers
               /\ input' = [input EXCEPT !.worldPosition = point, !.isDragging = FALSE]
               /\ UNCHANGED <<now, snapShape, lastCall, curves, curveVars, callLog, genVars>>

\* InputController._onKeyDown with the snap modifier
KeyDown ==
    /\ ~input.isSnapModeActive
    /\ \E w \in {OnSnapModeChange(World, TRUE, input.worldPosition)} :
               /\ app' = w.app
               /\ shapeModel' = w.shapeModel
               /\ drawPoint' = w.drawPoint
               /\ currentCyclogon' = w.currentCyclogon
               /\ generatedCurve' = w.generatedCurve
               /\ timers' = w.timers
               /\ input' = [input EXCEPT !.isSnapModeActive = TRUE]
               /\ UNCHANGED <<now, snapShape, lastCall, curves, curveVars, callLog, genVars>>

\* InputController._onKeyUp with the snap modifier
KeyUp ==
    /\ input.isSnapModeActive
    /\ \E w \in {OnSnapModeChange(World, FALSE, input.worldPosition)} :
               /\ Len(w.drawPoint.trailPoints) <= MaxTrail
               /\ app' = w.app
               /\ shapeModel' = w.shapeModel
               /\ drawPoint' = w.drawPoint
               /\ currentCyclogon' = w.currentCyclogon
               /\ generatedCurve' = w.generatedCurve
               /\ timers' = w.timers
               /\ input' = [input EXCEPT !.isSnapModeActive = FALSE]
               /\ UNCHANGED <<now, snapShape, lastCall, curves, curveVars, callLog, genVars>>

\* the shape selector: the radio button of the other shape is checked
ShapeChange ==
    \E type \in {"circle", "polygon"} :
        /\ type # app.shapeType
        /\ \E w \in {OnShapeChange(World, type)} :
               /\ app' = w.app
               /\ shapeModel' = w.shapeModel
               /\ drawPoint' = w.drawPoint
               /\ currentCyclogon' = w.currentCyclogon
               /\ generatedCurve' = w.generatedCurve
               /\ timers' = w.timers
               /\ input' = InputReset(input)
               /\ UNCHANGED <<now, snapShape, lastCall, curves, curveVars, callLog, genVars>>

\* the sidesMinus button
SidesMinus ==
    /\ app.polygonSides > MIN_POLYGON_SIDES
    /\ \E w \in {OnSidesChange(World, -1)} :
               /\ app' = w.app
               /\ shapeModel' = w.shapeModel
               /\ drawPoint' = w.drawPoint
               /\ currentCyclogon' = w.currentCyclogon
               /\ generatedCurve' = w.generatedCurve
               /\ timers' = w.timers
               /\ input' = InputReset(input)
               /\ UNCHANGED <<now, snapShape, lastCall, curves, curveVars, callLog, genVars>>

\* the sidesPlus button
SidesPlus ==
    /\ app.polygonSides < MAX_POLYGON_SIDES
    /\ app.polygonSides < MaxSides
    /\ \E w \in {OnSidesChange(World, 1)} :
               /\ app' = w.app
               /\ shapeModel' = w.shapeModel
               /\ drawPoint' = w.drawPoint
               /\ currentCyclogon' = w.currentCyclogon
               /\ generatedCurve' = w.generatedCurve
               /\ timers' = w.timers
               /\ input' = InputReset(input)
               /\ UNCHANGED <<now, snapShape, lastCall, curves, curveVars, callLog, genVars>>

\* the cycles slider
CyclesInput ==
    \E value \in AppCycles :
        \E w \in {OnCyclesInput(World, value)} :
            /\ app' = w.app
            /\ shapeModel' = w.shapeModel
            /\ drawPoint' = w.drawPoint
            /\ currentCyclogon' = w.currentCyclogon
            /\ generatedCurve' = w.generatedCurve
            /\ timers' = w.timers
            /\ input' = input
            /\ UNCHANGED <<now, snapShape, lastCall, curves, curveVars, callLog, genVars>>

\* the reset button
ResetButton ==
    \E w \in {ResetToInitialState(World)} :
            /\ app' = w.app
            /\ shapeModel' = w.shapeModel
            /\ drawPoint' = w.drawPoint
            /\ currentCyclogon' = w.currentCyclogon
            /\ generatedCurve' = w.generatedCurve
            /\ timers' = w.timers
            /\ input' = InputReset(input)
            /\ UNCHANGED <<now, snapShape, lastCall, curves, curveVars, callLog, genVars>>

\* the export button
ExportButton ==
    \E w \in {ExportCyclogon(World, now)} :
            /\ app' = w.app
            /\ shapeModel' = w.shapeModel
            /\ drawPoint' = w.drawPoint
            /\ currentCyclogon' = w.currentCyclogon
            /\ generatedCurve' = w.generatedCurve
            /\ timers' = w.timers
            /\ input' = input
            /\ UNCHANGED <<now, snapShape, lastCall, curves, curveVars, callLog, genVars>>

\* a setTimeout callback of throttledUpdateCyclogon that is due
TimerFires ==
    \E t \in timers :
        /\ t <= now
        /\ \E w \in {ThrottleTimeout([World EXCEPT !.timers = timers \ {t}], now)} :
               /\ app' = w.app
               /\ shapeModel' = w.shapeModel
               /\ drawPoint' = w.drawPoint
               /\ currentCyclogon' = w.currentCyclogon
               /\ generatedCurve' = w.generatedCurve
               /\ timers' = w.timers
               /\ input' = input
               /\ UNCHANGED <<now, snapShape, lastCall, curves, curveVars, callLog, genVars>>

\* an animation frame: CyclogonApp.animate() renders the configuration panel
RenderFrame ==
    \E deltaTime \in AppDeltaTimes :
        /\ drawPoint' = Render(drawPoint, deltaTime)
        /\ UNCHANGED <<app, shapeModel, currentCyclogon, generatedCurve, input, now, timers,
                       snapShape, lastCall, curves, curveVars, callLog, genVars>>

\* time passes
Tick ==
    /\ now + UpdateThrottle <= MaxTime
    /\ now' = now + UpdateThrottle
    /\ UNCHANGED <<app, shapeModel, currentCyclogon, generatedCurve, input, timers,
                   drawPoint, snapShape, lastCall, curves, curveVars, callLog, genVars>>

Next ==
    \/ MouseDown
    \/ MouseMove
    \/ MouseUp
    \/ KeyDown
    \/ KeyUp
    \/ ShapeChange
    \/ SidesMinus
    \/ SidesPlus
    \/ CyclesInput
    \/ ResetButton
    \/ ExportButton
    \/ TimerFires
    \/ RenderFrame
    \/ Tick

Spec == AppInit /\ [][Next]_vars

\* ===========================================================================
\* The application's curve
\* ===========================================================================

\* nothing is pending: no timer of the throttle is outstanding and the trace
\* point's position has reached its target (an event is one step, so no event
\* is ever half done)
Quiescent ==
    /\ timers = {}
    /\ drawPoint.position = drawPoint.targetPosition

\* the curve generate returns for the current shape, the trace point's current
\* position and the current cycle count
CurveOfCurrentInputs ==
    Generate(shapeModel, Pt(drawPoint.position.x, drawPoint.position.y), app.cycles)

\* C3: once no input event, timer or position animation is pending, the
\* application's current curve is the one generated from the current shape,
\* the trace point's current position and the current cycle count
C3_CurveFollowsInputs ==
    Quiescent =>
        /\ CurveOfCurrentInputs.outcome = "returned"
        /\ generatedCurve = Some(CurveOfCurrentInputs.value)

\* C4: the application's curve object stays equal to what generation produced
\* (its points and its metadata) until a new instance replaces it
C4_CurveUnchangedByConsumers == currentCyclogon = generatedCurve

\* ===========================================================================
\* SpecShape: a Polygon or a Circle under arbitrary calls.  shapeModel is the
\* object the calls are made on (Null before the first construction; a
\* constructor that throws makes no object), lastCall the last call, its
\* arguments and its outcome.
\* ===========================================================================

\* the sides, radii and rotation offsets of the calls, valid and invalid
ShapeSides == -1..MaxSides

ShapeRadii == {-100, 0, 50, 100}

ShapeOffsets == {-HALF_PI, 0}

\* the angles of the rotate calls and the largest rotation offset reached
ShapeAngles == {45, 90}

MaxRotation == 180

\* the factors of the scale calls (a product is rounded to 1/SCALE; a radius
\* of 1/SCALE times 0.5 rounds to 1/SCALE) and the largest radius reached
ScaleFactors == {-100, 0, 50, 200}

MaxRadius == 200

SidesError == "Error: Un poligono debe tener al menos 3 lados"

RadiusError == "Error: El radio debe ser positivo"

FactorError == "Error: El factor de escala debe ser positivo"

ShapeCall(op, args, outcome, error) ==
    [op |-> op, args |-> args, outcome |-> outcome, error |-> error]

shapeRest ==
    <<genVars, drawPoint, snapShape, app, currentCyclogon, generatedCurve,
      input, now, timers, curves, curveVars, callLog>>

ShapeInit ==
    /\ GenIdle
    /\ drawPoint = DrawPoint(0, DEFAULT_RADIUS)
    /\ snapShape = Null
    /\ lastCall = ShapeCall("none", <<>>, "returned", "")
    /\ app = AppConstructed
    /\ shapeModel = Null
    /\ currentCyclogon = Null
    /\ generatedCurve = Null
    /\ input = InputConstructed
    /\ now = 0
    /\ timers = {}
    /\ curves = {}
    /\ CurveIdle

\* new Polygon(sides, radius, rotationOffset)
NewPolygon ==
    \E sides \in ShapeSides, radius \in ShapeRadii, rotationOffset \in ShapeOffsets :
        /\ IF sides < 3
           THEN /\ lastCall' = ShapeCall("new Polygon", <<sides, radius>>, "thrown", SidesError)
                /\ UNCHANGED shapeModel
           ELSE IF radius <= 0
           THEN /\ lastCall' = ShapeCall("new Polygon", <<sides, radius>>, "thrown", RadiusError)
                /\ UNCHANGED shapeModel
           ELSE /\ lastCall' = ShapeCall("new Polygon", <<sides, radius>>, "returned", "")
                /\ shapeModel' = Polygon(sides, radius, rotationOffset)
        /\ UNCHANGED shapeRest

\* new Circle(radius)
NewCircle ==
    \E radius \in ShapeRadii :
        /\ IF radius <= 0
           THEN /\ lastCall' = ShapeCall("new Circle", <<radius>>, "thrown", RadiusError)
                /\ UNCHANGED shapeModel
           ELSE /\ lastCall' = ShapeCall("new Circle", <<radius>>, "returned", "")
                /\ shapeModel' = Circle(radius, Pt(0, 0))
        /\ UNCHANGED shapeRest

\* a sides setter that keeps the vertices and edges it had
SetSidesKeepingGeometry ==
    \E newSides \in ShapeSides :
        /\ shapeModel # Null /\ IsPolygon(shapeModel)
        /\ IF newSides < 3
           THEN /\ lastCall' = ShapeCall("set sides", <<newSides>>, "thrown", SidesError)
                /\ UNCHANGED shapeModel
           ELSE /\ lastCall' = ShapeCall("set sides", <<newSides>>, "returned", "")
                /\ shapeModel' = [shapeModel EXCEPT !.sides = newSides]
        /\ UNCHANGED shapeRest

\* Polygon: set sides(newSides)
SetSides ==
    \E newSides \in ShapeSides :
        /\ shapeModel # Null /\ IsPolygon(shapeModel)
        /\ IF newSides < 3
           THEN /\ lastCall' = ShapeCall("set sides", <<newSides>>, "thrown", SidesError)
                /\ UNCHANGED shapeModel
           ELSE /\ lastCall' = ShapeCall("set sides", <<newSides>>, "returned", "")
                /\ shapeModel' = Polygon(newSides, shapeModel.radius,
                                         shapeModel.rotationOffset)
        /\ UNCHANGED shapeRest

\* Polygon: set radius(newRadius)
PolygonSetRadius ==
    \E newRadius \in ShapeRadii :
        /\ shapeModel # Null /\ IsPolygon(shapeModel)
        /\ IF newRadius <= 0
           THEN /\ lastCall' = ShapeCall("set radius", <<newRadius>>, "thrown", RadiusError)
                /\ UNCHANGED shapeModel
           ELSE /\ lastCall' = ShapeCall("set radius", <<newRadius>>, "returned", "")
                /\ shapeModel' = Polygon(shapeModel.sides, newRadius,
                                         shapeModel.rotationOffset)
        /\ UNCHANGED shapeRest

\* Polygon.rotate(angle)
Rotate ==
    \E angle \in ShapeAngles :
        /\ shapeModel # Null /\ IsPolygon(shapeModel)
        /\ shapeModel.rotationOffset + angle <= MaxRotation
        /\ lastCall' = ShapeCall("rotate", <<angle>>, "returned", "")
        /\ shapeModel' = Polygon(shapeModel.sides, shapeModel.radius,
                                 shapeModel.rotationOffset + angle)
        /\ UNCHANGED shapeRest

\* Circle: set radius(newRadius)
CircleSetRadius ==
    \E newRadius \in ShapeRadii :
        /\ shapeModel # Null /\ IsCircle(shapeModel)
        /\ IF newRadius <= 0
           THEN /\ lastCall' = ShapeCall("set radius", <<newRadius>>, "thrown", RadiusError)
                /\ UNCHANGED shapeModel
           ELSE /\ lastCall' = ShapeCall("set radius", <<newRadius>>, "returned", "")
                /\ shapeModel' = [shapeModel EXCEPT !.radius = newRadius]
        /\ UNCHANGED shapeRest

\* a scale that takes any factor
ScaleByAnyFactor ==
    \E factor \in ScaleFactors :
        /\ shapeModel # Null /\ IsCircle(shapeModel)
        /\ RDiv(shapeModel.radius * factor, SCALE) <= MaxRadius
        /\ lastCall' = ShapeCall("scale", <<factor>>, "returned", "")
        /\ shapeModel' = [shapeModel EXCEPT !.radius = RDiv(@ * factor, SCALE)]
        /\ UNCHANGED shapeRest

\* Circle.scale(factor)
Scale ==
    \E factor \in ScaleFactors :
        /\ shapeModel # Null /\ IsCircle(shapeModel)
        /\ RDiv(shapeModel.radius * factor, SCALE) <= MaxRadius
        /\ IF factor <= 0
           THEN /\ lastCall' = ShapeCall("scale", <<factor>>, "thrown", FactorError)
                /\ UNCHANGED shapeModel
           ELSE /\ lastCall' = ShapeCall("scale", <<factor>>, "returned", "")
                /\ shapeModel' = [shapeModel EXCEPT !.radius = RDiv(@ * factor, SCALE)]
        /\ UNCHANGED shapeRest

ShapeNext ==
    \/ NewPolygon
    \/ NewCircle
    \/ SetSides
    \/ PolygonSetRadius
    \/ Rotate
    \/ CircleSetRadius
    \/ Scale

SpecShape == ShapeInit /\ [][ShapeNext]_vars

\* C11: the vertex list and the edge list of a polygon both have exactly
\* `sides` entries, computed from the current sides, radius and rotationOffset,
\* and edge i connects vertex i to vertex (i + 1) mod sides
C11_GeometryConsistent ==
    (shapeModel # Null /\ IsPolygon(shapeModel)) =>
        LET n == shapeModel.sides
            vertices == shapeModel.vertices
            edges == shapeModel.edges
        IN  /\ Len(vertices) = n
            /\ Len(edges) = n
            /\ vertices = CalculateVertices(n, shapeModel.radius,
                                            shapeModel.rotationOffset)
            /\ \A k \in 1..n :
                   /\ edges[k].index = k - 1
                   /\ edges[k].start = Pt(vertices[k].x, vertices[k].y)
                   /\ edges[k].end = Pt(vertices[(k % n) + 1].x,
                                        vertices[(k % n) + 1].y)

\* a polygon that was rotated by 45 degrees, whose sides assignment was
\* rejected last
C11_Witness ==
    /\ shapeModel # Null /\ IsPolygon(shapeModel)
    /\ shapeModel.rotationOffset = 45
    /\ shapeModel.sides = MaxSides
    /\ lastCall.op = "set sides" /\ lastCall.outcome = "thrown"

\* a constructor call with sides < 3 or radius <= 0
InvalidConstruction(call) ==
    \/ call.op = "new Polygon" /\ (call.args[1] < 3 \/ call.args[2] <= 0)
    \/ call.op = "new Circle" /\ call.args[1] <= 0

ValidGeometry(shape) ==
    \/ shape = Null
    \/ IsPolygon(shape) /\ shape.sides >= 3 /\ shape.radius > 0
    \/ IsCircle(shape) /\ shape.radius > 0

GenCurve == genResult[1].value

FirstSample == GenCurve.points[1]

LastSample == GenCurve.points[Len(GenCurve.points)]

\* C13: when cycles * n has a fractional part f # 0, the last sample of the
\* cyclogon belongs to side ceil(cycles * n) - 1, its local sweep on that side
\* is f times the exterior angle, and its total rotation is cycles * n times
\* the exterior angle
C13_PartialArcSweep ==
    (GenReturned /\ IsPolygon(genShape) /\ genCycles > 0
        /\ FractionalPart(genCycles * genShape.sides) # 0) =>
        LET cyclesN == genCycles * genShape.sides
            exteriorAngle == GetExteriorAngle(genShape)
        IN  /\ LastSample.sideIndex = CeilDiv(cyclesN, SCALE) - 1
            /\ LastSample.rotation - LastSample.sideIndex * exteriorAngle
                  = RDiv(FractionalPart(cyclesN) * exteriorAngle, SCALE)
            /\ LastSample.rotation = RDiv(cyclesN * exteriorAngle, SCALE)

\* C14: for a polygon and a whole number k >= 1 of cycles, the centre of the
\* polygon travels k * n * sideLength horizontally between the first and the
\* last sample (up to the rounding of the two centre positions), and this is
\* the totalDistance of the metadata
C14_HorizontalTravel ==
    (GenReturned /\ IsPolygon(genShape) /\ genCycles >= SCALE
        /\ genCycles % SCALE = 0) =>
        LET expected == (genCycles \div SCALE) * genShape.sides * GetSideLength(genShape)
            travel   == LastSample.center.x - FirstSample.center.x
        IN  /\ GenCurve.metadata.totalDistance = expected
            /\ travel - expected \in -2..2

\* two cycles of the polygon with the most sides
C14_Witness ==
    /\ GenReturned /\ IsPolygon(genShape)
    /\ genCycles = 2 * SCALE
    /\ genShape.sides = MaxSides
    /\ LastSample.sideIndex = 2 * MaxSides - 1

\* C15: with the trace point at the shape's centre and cycles > 0, generate
\* returns a curve for a circle and for a polygon, and every sample's (x, y)
\* is the centre position recorded for that sample
C15_CentreTracePoint ==
    (GenCalled /\ GenSupported /\ genCycles > 0 /\ genDrawPoint = Pt(0, 0)) =>
        /\ GenReturned
        /\ \A i \in 1..Len(GenCurve.points) :
               /\ GenCurve.points[i].x = GenCurve.points[i].center.x
               /\ GenCurve.points[i].y = GenCurve.points[i].center.y

\* a cyclogon of several samples traced by the centre of its polygon
C15_Witness ==
    /\ GenReturned /\ IsPolygon(genShape)
    /\ genCycles > 0 /\ genDrawPoint = Pt(0, 0)
    /\ Len(GenCurve.points) > PointsPerSide
    /\ LastSample.center.x > FirstSample.center.x

\* ceil(totalAngle * pointsPerRadian) for the cycles of the call
CeilOfAngleDensity ==
    CeilDiv(genCycles * TWO_PI_RAD * PointsPerRadian, SCALE * SCALE)

AdjustedTracePoint ==
    RotatePoint(genDrawPoint, Pt(0, 0), GenCurve.metadata.adjustmentRotation)

\* d, the length of the adjusted trace point
TraceDistance ==
    MathSqrt(AdjustedTracePoint.x * AdjustedTracePoint.x
             + AdjustedTracePoint.y * AdjustedTracePoint.y)

\* pointAngle of a sample: the angle of the adjusted trace point less the
\* sample's total rotation
PointAngle(sample) ==
    MathAtan2(AdjustedTracePoint.y, AdjustedTracePoint.x) - sample.rotation

\* origin + d (cos, sin)(pointAngle)
DisplacedFrom(origin, sample) ==
    Pt(origin.x + RDiv(TraceDistance * MathCos(PointAngle(sample)), TRIG),
       origin.y + RDiv(TraceDistance * MathSin(PointAngle(sample)), TRIG))

\* a cyclogon has been generated for a cycle count > 0
CyclogonGenerated == GenReturned /\ IsPolygon(genShape) /\ genCycles > 0

\* C21: the coordinates of every sample of a cyclogon are its side's pivot
\* displaced by the vector of length d at the angle pointAngle.
C21_SampleAboutPivot ==
    CyclogonGenerated =>
        \A k \in 1..Len(GenCurve.points) :
            LET sample == GenCurve.points[k]
            IN  Pt(sample.x, sample.y) = DisplacedFrom(sample.pivot, sample)

\* C21, amended: the coordinates of every sample of a cyclogon are the centre
\* recorded with it displaced by the vector of length d at the angle
\* pointAngle, and this centre is the pivot recorded with it displaced by the
\* vector of length R at the angle centerAngleFromPivot less the local rotation.
C21_SampleAboutCentre ==
    CyclogonGenerated =>
        \A k \in 1..Len(GenCurve.points) :
            LET sample == GenCurve.points[k]
                localRotation == sample.rotation
                                 - sample.sideIndex * GetExteriorAngle(genShape)
                centerAngle == HALF_PI + RDiv(GetExteriorAngle(genShape), 2) - localRotation
            IN  /\ Pt(sample.x, sample.y) = DisplacedFrom(sample.center, sample)
                /\ sample.center.x
                     = sample.pivot.x + RDiv(genShape.radius * MathCos(centerAngle), TRIG)
                /\ sample.center.y
                     = sample.pivot.y + RDiv(genShape.radius * MathSin(centerAngle), TRIG)

\* a cyclogon of a trace point off the centre, over more than one side, for a
\* polygon that generate has to turn onto a side
C21_Witness ==
    /\ CyclogonGenerated
    /\ TraceDistance > 0
    /\ GenCurve.metadata.adjustmentRotation # 0
    /\ LastSample.sideIndex > 0
    /\ Pt(LastSample.x, LastSample.y) # LastSample.center

SamplesOfSide(sideIndex) ==
    Cardinality({k \in 1..Len(GenCurve.points) :
                    GenCurve.points[k].sideIndex = sideIndex})

\* C23: the boundary sample that two consecutive sides share appears once in a
\* cyclogon: each side but the last contributes pointsPerSide samples, the
\* last side one more than its sub-sample count, and for a whole cycles * n
\* the curve has totalSides * pointsPerSide + 1 samples.
C23_BoundarySampleOnce ==
    CyclogonGenerated =>
        LET cyclesN    == genCycles * genShape.sides
            totalSides == CeilDiv(cyclesN, SCALE)
            fraction   == IF FractionalPart(cyclesN) # 0
                          THEN FractionalPart(cyclesN) ELSE SCALE
        IN  /\ \A s \in 0..(totalSides - 2) : SamplesOfSide(s) = PointsPerSide
            /\ SamplesOfSide(totalSides - 1)
                  = CeilDiv(PointsPerSide * fraction, SCALE) + 1
            /\ \A k \in 1..(Len(GenCurve.points) - 1) :
                  GenCurve.points[k].rotation # GenCurve.points[k + 1].rotation
            /\ FractionalPart(cyclesN) = 0
                  => Len(GenCurve.points) = totalSides * PointsPerSide + 1

\* two whole cycles of the polygon with the most sides
C23_Witness ==
    /\ CyclogonGenerated
    /\ genShape.sides = MaxSides
    /\ genCycles = 2 * SCALE
    /\ Len(GenCurve.points) = 2 * MaxSides * PointsPerSide + 1

\* ===========================================================================
\* SpecCurve: a Cyclogon object under arbitrary calls of getPoints, normalize
\* and CyclogonCalculator.simplify, with a caller that writes to what
\* getPoints returned.  curve is the object's _points.  The center and the
\* pivot of a sample are objects of their own: they are kept in heap and a
\* sample holds their addresses, so a copy of the sample that keeps the
\* addresses shares them with the original.
\* ===========================================================================

\* the largest number of samples of the curves under analysis
MaxSamples == 4

\* the positions of the samples
SamplePositions == {Pt(0, 0), Pt(100, 50), Pt(200, 0)}

\* tolerances of simplify, in units of 1/SCALE (the default 0.01 is 1)
Tolerances == {0, 1, 50}

\* the value the caller writes into what it holds: -1
Overwritten == -SCALE

IsNaN(v) == ToString(v) = ToString(NaN)

AnyNaN(values) == \E k \in DOMAIN values : IsNaN(values[k])

\* a > b of two numbers: false when one of them is NaN
Greater(a, b) == ~IsNaN(a) /\ ~IsNaN(b) /\ a > b

\* the _points that addPoint builds from positions: sample k is the k-th in
\* parametric order (theta k), its center is at address 2k - 1 and its pivot
\* at address 2k
Samples(positions) ==
    [k \in 1..Len(positions) |->
        [x |-> positions[k].x, y |-> positions[k].y, theta |-> k,
         center |-> 2 * k - 1, pivot |-> 2 * k]]

\* the center and pivot objects of n samples: the shape moves one unit to the
\* right from a sample to the next
RollingHeap(n) ==
    [a \in 1..(2 * n) |->
        IF a % 2 = 1 THEN Pt(((a + 1) \div 2) * SCALE, DEFAULT_RADIUS)
        ELSE Pt((a \div 2) * SCALE, 0)]

\* Cyclogon.getPoints(): a new array of shallow copies { ...p }; each copy has
\* the fields of p, the addresses of center and pivot included
GetPoints(points) ==
    [k \in 1..Len(points) |-> [field \in DOMAIN points[k] |-> points[k][field]]]

\* the least and the greatest of values as the loop of getBoundingBox finds
\* them with Math.min and Math.max (NaN once a value is NaN), and their
\* difference
AxisRange(values) ==
    IF AnyNaN(values) THEN [min |-> NaN, max |-> NaN, size |-> NaN]
    ELSE LET all == {values[k] : k \in DOMAIN values}
             min == CHOOSE v \in all : \A other \in all : v <= other
             max == CHOOSE v \in all : \A other \in all : v >= other
         IN  [min |-> min, max |-> max, size |-> max - min]

\* Cyclogon.getBoundingBox(), without the center it also returns
GetBoundingBox(points) ==
    IF Len(points) = 0 THEN Null
    ELSE LET xs == AxisRange([k \in 1..Len(points) |-> points[k].x])
             ys == AxisRange([k \in 1..Len(points) |-> points[k].y])
         IN  Some([minX |-> xs.min, maxX |-> xs.max, minY |-> ys.min, maxY |-> ys.max,
                   width |-> xs.size, height |-> ys.size])

\* (value - min) / scale of normalize, in units of 1/SCALE.  With scale 0 the
\* width and the height are 0, value - min is 0 and the quotient 0 / 0 is NaN
NormalizedCoordinate(value, min, scale) ==
    IF AnyNaN(<<value, min, scale>>) THEN NaN
    ELSE IF scale = 0 THEN NaN
    ELSE RDiv((value - min) * SCALE, scale)

\* Cyclogon.normalize(): the _points after the call and what it returns
Normalize(points) ==
    LET bbox == GetBoundingBox(points)
    IN  IF bbox = Null THEN [points |-> points, value |-> Null]
        ELSE LET scale == IF AnyNaN(<<bbox[1].width, bbox[1].height>>) THEN NaN
                          ELSE MathMax(bbox[1].width, bbox[1].height)
             IN  [points |-> [k \in 1..Len(points) |->
                                [points[k] EXCEPT
                                    !.x = NormalizedCoordinate(@, bbox[1].minX, scale),
                                    !.y = NormalizedCoordinate(@, bbox[1].minY, scale)]],
                  value |-> Some([offsetX |-> bbox[1].minX, offsetY |-> bbox[1].minY,
                                  scale |-> scale])]

\* CyclogonCalculator._perpendicularDistance(point, lineStart, lineEnd): the
\* distance from point to the segment, t clamped to [0, 1]
PerpendicularDistance(point, lineStart, lineEnd) ==
    IF AnyNaN(<<point.x, point.y, lineStart.x, lineStart.y, lineEnd.x, lineEnd.y>>)
    THEN NaN
    ELSE LET dx == lineEnd.x - lineStart.x
             dy == lineEnd.y - lineStart.y
             lengthSquared == dx * dx + dy * dy
         IN  IF lengthSquared = 0
             THEN MathSqrt((point.x - lineStart.x) * (point.x - lineStart.x)
                           + (point.y - lineStart.y) * (point.y - lineStart.y))
             ELSE LET t == MathMax(0, MathMin(SCALE,
                               RDiv(((point.x - lineStart.x) * dx
                                     + (point.y - lineStart.y) * dy) * SCALE,
                                    lengthSquared)))
                      projX == lineStart.x + RDiv(t * dx, SCALE)
                      projY == lineStart.y + RDiv(t * dy, SCALE)
                  IN  MathSqrt((point.x - projX) * (point.x - projX)
                               + (point.y - projY) * (point.y - projY))

\* the loop of _douglasPeucker from the index i (counted from 0) on, given
\* the maxDistance and maxIndex found so far
RECURSIVE FarthestFrom(_, _, _)
FarthestFrom(points, i, found) ==
    IF i >= Len(points) - 1 THEN found
    ELSE LET distance == PerpendicularDistance(points[i + 1], points[1], points[Len(points)])
         IN  FarthestFrom(points, i + 1,
                          IF Greater(distance, found.maxDistance)
                          THEN [maxDistance |-> distance, maxIndex |-> i]
                          ELSE found)

\* CyclogonCalculator._douglasPeucker(points, tolerance)
RECURSIVE DouglasPeucker(_, _)
DouglasPeucker(points, tolerance) ==
    IF Len(points) < 3 THEN points
    ELSE LET found == FarthestFrom(points, 1, [maxDistance |-> 0, maxIndex |-> 0])
         IN  IF Greater(found.maxDistance, tolerance)
             THEN LET left  == DouglasPeucker(SubSeq(points, 1, found.maxIndex + 1),
                                              tolerance)
                      right == DouglasPeucker(SubSeq(points, found.maxIndex + 1, Len(points)),
                                              tolerance)
                  IN  SubSeq(left, 1, Len(left) - 1) \o right
             ELSE <<points[1], points[Len(points)]>>

\* simplify that keeps the two ends of every curve of three points or more
SimplifyToEnds(points, tolerance) ==
    IF Len(points) < 3 THEN GetPoints(points)
    ELSE <<GetPoints(points)[1], GetPoints(points)[Len(points)]>>

\* CyclogonCalculator.simplify(cyclogon, tolerance), points being the _points
\* of cyclogon
Simplify(points, tolerance) ==
    IF Len(GetPoints(points)) < 3 THEN GetPoints(points)
    ELSE DouglasPeucker(GetPoints(points), tolerance)

\* a new Cyclogon to which addPoints has added up to MaxSamples samples
CurveInit ==
    /\ GenIdle
    /\ DrawPointInit
    /\ PageIdle
    /\ curves = {}
    /\ callLog = <<>>
    /\ \E n \in 0..MaxSamples :
          /\ \E positions \in [1..n -> SamplePositions] : curve = Samples(positions)
          /\ heap = RollingHeap(n)
    /\ held = Held("none", Null, <<>>)

curveRest == <<genVars, dpVars, app, shapeModel, currentCyclogon, generatedCurve,
               input, now, timers, curves, callLog>>

\* const p = curve.getPoints()
CallGetPoints ==
    /\ held' = Held("getPoints", Null, GetPoints(curve))
    /\ UNCHANGED <<curve, heap, curveRest>>

\* the caller has p, the array getPoints returned, and has not written to it
HoldsPoints == held.op = "getPoints" /\ ~held.modified

\* p[k].x = -1
CallerWritesSample ==
    /\ HoldsPoints
    /\ \E k \in 1..Len(held.value) :
          held' = [held EXCEPT !.value[k].x = Overwritten, !.modified = TRUE]
    /\ UNCHANGED <<curve, heap, curveRest>>

\* p.pop()
CallerPops ==
    /\ HoldsPoints
    /\ Len(held.value) > 0
    /\ held' = [held EXCEPT !.value = SubSeq(@, 1, Len(@) - 1), !.modified = TRUE]
    /\ UNCHANGED <<curve, heap, curveRest>>

\* p[k].center.x = -1 or p[k].pivot.x = -1; explored while no center and no
\* pivot has been written to
CallerWritesNested ==
    /\ HoldsPoints
    /\ heap = RollingHeap(Len(curve))
    /\ \E k \in 1..Len(held.value), field \in {"center", "pivot"} :
          heap' = [heap EXCEPT ![held.value[k][field]].x = Overwritten]
    /\ held' = [held EXCEPT !.modified = TRUE]
    /\ UNCHANGED <<curve, curveRest>>

\* curve.normalize()
CallNormalize ==
    /\ curve' = Normalize(curve).points
    /\ held' = Held("normalize", Null, Normalize(curve).value)
    /\ UNCHANGED <<heap, curveRest>>

\* calculator.simplify(curve, tolerance)
CallSimplify ==
    \E tolerance \in Tolerances :
        /\ held' = Held("simplify", Some(tolerance), Simplify(curve, tolerance))
        /\ UNCHANGED <<curve, heap, curveRest>>

CurveNext ==
    \/ CallGetPoints
    \/ CallerWritesSample
    \/ CallerPops
    \/ CallerWritesNested
    \/ CallNormalize
    \/ CallSimplify

SpecCurve == CurveInit /\ [][CurveNext]_vars

\* what getPoints returns, with the center and the pivot of each sample
PointsView ==
    [k \in 1..Len(curve) |->
        [GetPoints(curve)[k] EXCEPT !.center = heap[@], !.pivot = heap[@]]]

\* C16: points() returns a snapshot copy: nothing the caller writes to the
\* returned array or to a sample in it, the center and the pivot of the sample
\* included, changes what later calls of points() on the curve return.
C16_PointsSnapshot ==
    [][(held.op = "getPoints" /\ held'.op = "getPoints" /\ held'.modified)
           => PointsView' = PointsView]_vars

\* no sample of the curve has a NaN coordinate
PlanePoints(points) ==
    \A k \in 1..Len(points) : ~AnyNaN(<<points[k].x, points[k].y>>)

\* point is within tolerance of one of the segments of the polyline kept
WithinTolerance(point, kept, tolerance) ==
    \E j \in 1..(Len(kept) - 1) :
        PerpendicularDistance(point, kept[j], kept[j + 1]) <= tolerance

\* C17: for every curve of points of the plane and every tolerance >= 0,
\* simplify keeps the first and the last point, returns the points it keeps in
\* their original order, and every point it removes is within the distance
\* tolerance of the simplified polyline.
C17_SimplifyWithinTolerance ==
    (held.op = "simplify" /\ PlanePoints(held.before)) =>
        LET kept == held.value
            points == held.before
        IN  /\ Len(points) > 0 =>
                /\ Len(kept) > 0
                /\ kept[1] = points[1]
                /\ kept[Len(kept)] = points[Len(points)]
            /\ \A j \in 1..Len(kept) :
                  /\ kept[j].theta \in 1..Len(points)
                  /\ kept[j] = points[kept[j].theta]
            /\ \A j \in 1..(Len(kept) - 1) : kept[j].theta < kept[j + 1].theta
            /\ \A k \in 1..Len(points) :
                  (\A j \in 1..Len(kept) : kept[j].theta # k)
                      => WithinTolerance(points[k], kept, held.argument[1])

\* a curve of four samples simplified with tolerance 0.5: the second sample,
\* at the distance 0.5 of the segment that replaces it, is removed, the third
\* is kept
C17_Witness ==
    /\ held.op = "simplify"
    /\ held.argument = Some(50)
    /\ Len(curve) = MaxSamples
    /\ PlanePoints(curve)
    /\ Len(held.value) = 3
    /\ held.value[2].theta = 3
    /\ PerpendicularDistance(curve[2], curve[1], curve[3]) = 50

\* coordinate * scale + offset, in units of 1/SCALE
Restored(coordinate, scale, offset) ==
    IF AnyNaN(<<coordinate, scale, offset>>) THEN NaN
    ELSE RDiv(coordinate * scale, SCALE) + offset

\* a and b are numbers not more than 1/SCALE apart
Close(a, b) == ~AnyNaN(<<a, b>>) /\ Abs(a - b) <= 1

\* the bounding box after, scaled by scale and moved by the offset, is the
\* bounding box before
Reconstructs(before, after, factors) ==
    /\ Close(Restored(after.minX, factors.scale, factors.offsetX), before.minX)
    /\ Close(Restored(after.maxX, factors.scale, factors.offsetX), before.maxX)
    /\ Close(Restored(after.minY, factors.scale, factors.offsetY), before.minY)
    /\ Close(Restored(after.maxY, factors.scale, factors.offsetY), before.maxY)

\* C18: for every curve with a sample at least, one whose samples all coincide
\* included, normalize() returns a scale and an offset such that multiplying
\* the normalized points by the scale and adding the offset reconstructs the
\* original bounding box.
C18_NormalizeRoundTrip ==
    (held.op = "normalize" /\ Len(held.before) > 0 /\ PlanePoints(held.before)) =>
        /\ held.value # Null
        /\ Reconstructs(GetBoundingBox(held.before)[1], GetBoundingBox(curve)[1],
                        held.value[1])

\* ===========================================================================
\* SpecCalls: calls of generate on one CyclogonCalculator.  genShape,
\* genDrawPoint and genCycles are the arguments of the last call as they are
\* when it has returned, genResult is what it returned; callLog has, for each
\* call in turn, the arguments as they were passed and the samples returned.
\* The calculator's options are assigned by its constructor only: they are
\* the definitions PointsPerSide and PointsPerRadian.
\* ===========================================================================

\* the largest number of calls made on the calculator
MaxCalls == 3

CallShapes ==
    {Circle(DEFAULT_RADIUS, Pt(0, 0)),
     Polygon(MIN_POLYGON_SIDES, DEFAULT_RADIUS, RestingOffset(MIN_POLYGON_SIDES))}

CallDrawPoints == {Pt(0, 100), Pt(150, 50)}

\* cycle counts, in units of 1/SCALE: 1 and 1.5
CallCycles == {100, 150}

\* the results of generate for the arguments of the calls, as GeneratedCurves
\* has them for the application
CallCurves ==
    {[shape |-> shape, point |-> point, cycles |-> cycles,
      result |-> Generate(shape, point, cycles)] :
        shape \in CallShapes, point \in CallDrawPoints, cycles \in CallCycles}

CallsInit ==
    /\ GenIdle
    /\ DrawPointInit
    /\ PageIdle
    /\ curves = CallCurves
    /\ curve = <<>>
    /\ heap = <<>>
    /\ held = Held("none", Null, <<>>)
    /\ callLog = <<>>

\* what callLog keeps of a call
Logged(shape, point, cycles, result) ==
    [shape |-> shape, point |-> point, cycles |-> cycles,
     samples |-> result.value.points]

\* a generate that keeps the cycle count in the calculator and computes the
\* curve with the count the call before left there
GenerateCallStaleCycles ==
    /\ Len(callLog) < MaxCalls
    /\ \E shape \in CallShapes, point \in CallDrawPoints, cycles \in CallCycles :
          \E result \in {GenerateOnce(shape, point,
                                      IF genResult # Null THEN genCycles ELSE cycles)} :
              /\ genShape' = shape
              /\ genDrawPoint' = point
              /\ genCycles' = cycles
              /\ genResult' = Some(result)
              /\ callLog' = Append(callLog, Logged(shape, point, cycles, result))
    /\ UNCHANGED <<dpVars, app, shapeModel, currentCyclogon, generatedCurve, input,
                   now, timers, curves, curveVars>>

\* calculator.generate(shape, point, cycles): generate, generateCycloid and
\* generateCyclogon assign to no field of shape, of point or of the calculator
GenerateCall ==
    /\ Len(callLog) < MaxCalls
    /\ \E shape \in CallShapes, point \in CallDrawPoints, cycles \in CallCycles :
          \E result \in {GenerateOnce(shape, point, cycles)} :
              /\ genShape' = shape
              /\ genDrawPoint' = point
              /\ genCycles' = cycles
              /\ genResult' = Some(result)
              /\ callLog' = Append(callLog, Logged(shape, point, cycles, result))
    /\ UNCHANGED <<dpVars, app, shapeModel, currentCyclogon, generatedCurve, input,
                   now, timers, curves, curveVars>>

CallsNext == GenerateCall

SpecCalls == CallsInit /\ [][CallsNext]_vars

\* the arguments of two calls are equal
EqualArguments(first, second) ==
    /\ first.shape = second.shape
    /\ first.point = second.point
    /\ first.cycles = second.cycles

VisualStateOfFlags(dp) ==
    IF dp.isDragging /\ dp.isSnappedToEdge THEN "snap_dragging"
    ELSE IF dp.isDragging THEN "dragging"
    ELSE IF dp.isSnappedToEdge /\ ~dp.isHovered THEN "snapped"
    ELSE IF dp.isHovered THEN "hovered"
    ELSE "idle"

\* C24: in every reachable state of a trace point its visual state is the one
\* its flags determine (SNAP_DRAGGING if dragging and snapped, else DRAGGING
\* if dragging, else SNAPPED if snapped and not hovered, else HOVERED if
\* hovered, else IDLE), after snap, reset-to-top and setPosition calls as well
\* as after flag changes.
C24_VisualStateOfFlags == drawPoint.visualState = VisualStateOfFlags(drawPoint)

\* ===========================================================================
\* SpecThrottle: calls of throttledUpdateCyclogon and its timers in the
\* running application, with time in steps of 1 ms.  callLog has, for each
\* execution of updateCyclogon in turn, its time and whether the call or a
\* timer made it.  A timer fires at its due time or later.
\* ===========================================================================

\* the end of the modelled time, in ms
MaxThrottleTime == 49

\* what callLog keeps of an execution of updateCyclogon
UpdateLogged(by) == [time |-> now, by |-> by]

throttleRest == <<genVars, dpVars, shapeModel, input, curves, curveVars>>

\* app.throttledUpdateCyclogon(), called early enough for its timer to fire
\* within the modelled time
CallThrottledUpdate ==
    /\ now + UpdateThrottle <= MaxThrottleTime
    /\ \E w \in {ThrottledUpdateCyclogon(World, now)} :
          /\ app' = w.app
          /\ currentCyclogon' = w.currentCyclogon
          /\ generatedCurve' = w.generatedCurve
          /\ timers' = w.timers
    /\ callLog' = IF ThrottleOpen(World, now)
                  THEN Append(callLog, UpdateLogged("call")) ELSE callLog
    /\ UNCHANGED <<now, throttleRest>>

\* the callback that throttledUpdateCyclogon handed to setTimeout runs
ThrottleTimerFires ==
    \E t \in timers :
        /\ t <= now
        /\ \E w \in {ThrottleTimeout([World EXCEPT !.timers = timers \ {t}], now)} :
              /\ app' = w.app
              /\ currentCyclogon' = w.currentCyclogon
              /\ generatedCurve' = w.generatedCurve
              /\ timers' = w.timers
        /\ callLog' = IF app.pendingUpdate
                      THEN Append(callLog, UpdateLogged("timer")) ELSE callLog
        /\ UNCHANGED <<now, throttleRest>>

\* 1 ms passes
Millisecond ==
    /\ now < MaxThrottleTime
    /\ now' = now + 1
    /\ UNCHANGED <<app, currentCyclogon, generatedCurve, timers, callLog, throttleRest>>

ThrottleNext ==
    \/ CallThrottledUpdate
    \/ ThrottleTimerFires
    \/ Millisecond

SpecThrottle == AppInit /\ [][ThrottleNext]_vars

\* C25: any two executions of updateCyclogon made through
\* throttledUpdateCyclogon, by the call or by its timer, are the throttle
\* interval (16 ms) apart at least, for every interleaving of calls and timer
\* firings.
C25_UpdatesThrottled ==
    \A i \in 1..(Len(callLog) - 1) :
        callLog[i + 1].time - callLog[i].time >= UpdateThrottle

\* a timer is outstanding whenever an update is pending
PendingHasTimer == app.pendingUpdate => timers # {}

\* SpecThrottle with the timers firing and time passing
SpecThrottleFair ==
    /\ SpecThrottle
    /\ WF_vars(ThrottleTimerFires)
    /\ WF_vars(Millisecond)

\* a pending update ends with an execution of updateCyclogon only
PendingEndsWithUpdate ==
    (app.pendingUpdate /\ ~app'.pendingUpdate) => Len(callLog') = Len(callLog) + 1

\* C26: no throttled update is lost: provided the scheduled timers fire, a
\* call of throttledUpdateCyclogon is followed, at the time of the call or
\* later, by an execution of updateCyclogon (the call that finds the throttle
\* open executes it; after any other call an update is pending, and a pending
\* update ends, and ends with an execution only), and whenever _pendingUpdate
\* is true a timer is outstanding.
C26_NoUpdateLost ==
    /\ []PendingHasTimer
    /\ [][PendingEndsWithUpdate]_vars
    /\ app.pendingUpdate ~> ~app.pendingUpdate

\* a call has been put off and its timer has executed the update
C26_Witness ==
    /\ Len(callLog) > 1
    /\ callLog[Len(callLog)].by = "timer"
    /\ ~app.pendingUpdate
    /\ timers = {}

\* ---------------------------------------------------------------------------
\* The input controller on its own (SpecInput): its state, its flags and the
\* events it emits, under mouse, touch and keyboard events and reset() calls.
\* The hit test is the callback of the owner: either answer is possible.
\* ---------------------------------------------------------------------------

\* the most events callLog keeps in SpecInput
MaxEvents == 5

PointerPositions == {Pt(0, 0), Pt(100, 0)}

Buttons == {0, 2}

TouchCounts == {1, 2}

Keys == {"Shift", "a"}

\* InputController.constructor; clicked: _lastClickTime has been set
ControllerConstructed ==
    [state |-> "idle",
     isSnapModeActive |-> FALSE,
     isDragging |-> FALSE,
     isHovering |-> FALSE,
     worldPosition |-> Pt(0, 0),
     dragStartPosition |-> Pt(0, 0),
     clicked |-> FALSE]

\* what a handler leaves: the controller and the events it has emitted, in turn
Handled(in, emitted) == [input |-> in, emitted |-> emitted]

\* InputController._updatePositions
UpdatePositions(in, point) == [in EXCEPT !.worldPosition = point]

\* InputController._onMouseDown; recent: the last click is less than
\* _doubleClickThreshold ago
OnMouseDown(in, button, point, isOverTarget, recent) ==
    IF button # 0 THEN Handled(in, <<>>)
    ELSE IF ~isOverTarget THEN Handled(UpdatePositions(in, point), <<>>)
    ELSE Handled([in EXCEPT !.worldPosition = point,
                            !.isDragging = TRUE,
                            !.dragStartPosition = point,
                            !.state = IF in.isSnapModeActive THEN "snap_mode" ELSE "dragging",
                            !.clicked = TRUE],
                 IF in.clicked /\ recent THEN <<"dragStart", "doubleClick">>
                 ELSE <<"dragStart">>)

\* InputController._onMouseMove
OnMouseMove(in, point, isOverTarget) ==
    IF in.isDragging
    THEN Handled([in EXCEPT !.worldPosition = point,
                            !.state = IF in.isSnapModeActive THEN "snap_mode" ELSE "dragging"],
                 <<"dragMove">>)
    ELSE IF isOverTarget /\ ~in.isHovering
    THEN Handled([in EXCEPT !.worldPosition = point, !.isHovering = TRUE, !.state = "hovering"],
                 <<"hoverEnter">>)
    ELSE IF ~isOverTarget /\ in.isHovering
    THEN Handled([in EXCEPT !.worldPosition = point, !.isHovering = FALSE, !.state = "idle"],
                 <<"hoverLeave">>)
    ELSE Handled(UpdatePositions(in, point), <<>>)

\* InputController._onMouseUp
OnMouseUp(in, point, wasOverTarget) ==
    IF ~in.isDragging THEN Handled(in, <<>>)
    ELSE Handled([in EXCEPT !.worldPosition = point,
                            !.isDragging = FALSE,
                            !.state = IF wasOverTarget THEN "hovering" ELSE "idle"],
                 IF point = in.dragStartPosition THEN <<"dragEnd", "click">>
                 ELSE <<"dragEnd">>)

\* InputController._onMouseLeave
OnMouseLeave(in, point, isOverTarget) ==
    LET up == IF in.isDragging THEN OnMouseUp(in, point, isOverTarget) ELSE Handled(in, <<>>)
    IN  IF up.input.isHovering
        THEN Handled([up.input EXCEPT !.isHovering = FALSE, !.state = "idle"],
                     Append(up.emitted, "hoverLeave"))
        ELSE up

\* InputController._onKeyDown
OnKeyDown(in, key) ==
    IF key = "Shift" /\ ~in.isSnapModeActive
    THEN Handled([in EXCEPT !.isSnapModeActive = TRUE,
                            !.state = IF in.isDragging THEN "snap_mode" ELSE in.state],
                 <<"snapModeChange">>)
    ELSE Handled(in, <<>>)

\* InputController._onKeyUp
OnKeyUp(in, key) ==
    IF key = "Shift" /\ in.isSnapModeActive
    THEN Handled([in EXCEPT !.isSnapModeActive = FALSE,
                            !.state = IF in.isDragging THEN "dragging" ELSE in.state],
                 <<"snapModeChange">>)
    ELSE Handled(in, <<>>)

\* InputController._onTouchStart
OnTouchStart(in, touches, point, isOverTarget) ==
    IF touches # 1 THEN Handled(in, <<>>)
    ELSE IF ~isOverTarget THEN Handled(UpdatePositions(in, point), <<>>)
    ELSE Handled([in EXCEPT !.worldPosition = point,
                            !.isDragging = TRUE,
                            !.dragStartPosition = point,
                            !.state = "dragging"],
                 <<"dragStart">>)

\* InputController._onTouchMove
OnTouchMove(in, touches, point) ==
    IF ~in.isDragging \/ touches # 1 THEN Handled(in, <<>>)
    ELSE Handled(UpdatePositions(in, point), <<"dragMove">>)

\* InputController._onTouchEnd
OnTouchEnd(in) ==
    IF ~in.isDragging THEN Handled(in, <<>>)
    ELSE Handled([in EXCEPT !.isDragging = FALSE, !.state = "idle"], <<"dragEnd">>)

\* InputController.reset
ControllerReset(in) ==
    Handled([in EXCEPT !.isDragging = FALSE, !.isHovering = FALSE, !.state = "idle"], <<>>)

InputInit ==
    /\ GenIdle
    /\ DrawPointInit
    /\ app = AppConstructed
    /\ shapeModel = Circle(DEFAULT_RADIUS, Pt(0, 0))
    /\ currentCyclogon = Null
    /\ generatedCurve = Null
    /\ input = ControllerConstructed
    /\ now = 0
    /\ timers = {}
    /\ curves = {}
    /\ CurveIdle

inputRest == <<genVars, dpVars, app, shapeModel, currentCyclogon, generatedCurve, now,
               timers, curves, curveVars>>

MouseDownEvent ==
    \E button \in Buttons, point \in PointerPositions, isOverTarget, recent \in BOOLEAN :
        \E handled \in {OnMouseDown(input, button, point, isOverTarget, recent)} :
            /\ Len(callLog) + Len(handled.emitted) <= MaxEvents
            /\ input' = handled.input
            /\ callLog' = callLog \o handled.emitted
            /\ UNCHANGED inputRest

MouseMoveEvent ==
    \E point \in PointerPositions, isOverTarget \in BOOLEAN :
        \E handled \in {OnMouseMove(input, point, isOverTarget)} :
            /\ Len(callLog) + Len(handled.emitted) <= MaxEvents
            /\ input' = handled.input
            /\ callLog' = callLog \o handled.emitted
            /\ UNCHANGED inputRest

MouseUpEvent ==
    \E point \in PointerPositions, isOverTarget \in BOOLEAN :
        \E handled \in {OnMouseUp(input, point, isOverTarget)} :
            /\ Len(callLog) + Len(handled.emitted) <= MaxEvents
            /\ input' = handled.input
            /\ callLog' = callLog \o handled.emitted
            /\ UNCHANGED inputRest

MouseLeaveEvent ==
    \E point \in PointerPositions, isOverTarget \in BOOLEAN :
        \E handled \in {OnMouseLeave(input, point, isOverTarget)} :
            /\ Len(callLog) + Len(handled.emitted) <= MaxEvents
            /\ input' = handled.input
            /\ callLog' = callLog \o handled.emitted
            /\ UNCHANGED inputRest

KeyDownEvent ==
    \E key \in Keys :
        \E handled \in {OnKeyDown(input, key)} :
            /\ Len(callLog) + Len(handled.emitted) <= MaxEvents
            /\ input' = handled.input
            /\ callLog' = callLog \o handled.emitted
            /\ UNCHANGED inputRest

KeyUpEvent ==
    \E key \in Keys :
        \E handled \in {OnKeyUp(input, key)} :
            /\ Len(callLog) + Len(handled.emitted) <= MaxEvents
            /\ input' = handled.input
            /\ callLog' = callLog \o handled.emitted
            /\ UNCHANGED inputRest

TouchStartEvent ==
    \E touches \in TouchCounts, point \in PointerPositions, isOverTarget \in BOOLEAN :
        \E handled \in {OnTouchStart(input, touches, point, isOverTarget)} :
            /\ Len(callLog) + Len(handled.emitted) <= MaxEvents
            /\ input' = handled.input
            /\ callLog' = callLog \o handled.emitted
            /\ UNCHANGED inputRest

TouchMoveEvent ==
    \E touches \in TouchCounts, point \in PointerPositions :
        \E handled \in {OnTouchMove(input, touches, point)} :
            /\ Len(callLog) + Len(handled.emitted) <= MaxEvents
            /\ input' = handled.input
            /\ callLog' = callLog \o handled.emitted
            /\ UNCHANGED inputRest

TouchEndEvent ==
    \E handled \in {OnTouchEnd(input)} :
        /\ Len(callLog) + Len(handled.emitted) <= MaxEvents
        /\ input' = handled.input
        /\ callLog' = callLog \o handled.emitted
        /\ UNCHANGED inputRest

ResetCall ==
    \E handled \in {ControllerReset(input)} :
        /\ Len(callLog) + Len(handled.emitted) <= MaxEvents
        /\ input' = handled.input
        /\ callLog' = callLog \o handled.emitted
        /\ UNCHANGED inputRest

InputNext ==
    \/ MouseDownEvent
    \/ MouseMoveEvent
    \/ MouseUpEvent
    \/ MouseLeaveEvent
    \/ KeyDownEvent
    \/ KeyUpEvent
    \/ TouchStartEvent
    \/ TouchMoveEvent
    \/ TouchEndEvent
    \/ ResetCall

SpecInput == InputInit /\ [][InputNext]_vars

\* the state the flags determine
StateOfFlags(in) ==
    IF in.isDragging /\ in.isSnapModeActive THEN "snap_mode"
    ELSE IF in.isDragging THEN "dragging"
    ELSE IF in.isHovering THEN "hovering"
    ELSE "idle"

\* C27: after every mouse, touch and keyboard handler of the input controller
\* its state is the one the flags determine: snap_mode iff dragging with the
\* snap mode active, dragging iff dragging without it, hovering iff hovering
\* and not dragging, idle otherwise.
C27_StateAgreesWithFlags == input.state = StateOfFlags(input)

\* the drag events among the emitted ones, in turn
IsDragEvent(event) == event \in {"dragStart", "dragMove", "dragEnd"}

DragEvents == SelectSeq(callLog, IsDragEvent)

\* C28: among the emitted events dragStart and dragEnd alternate strictly,
\* beginning with dragStart, and every dragMove lies between a dragStart and
\* the dragEnd that ends it.
C28_DragEventsAlternate ==
    \A i \in 1..Len(DragEvents) :
        IF DragEvents[i] = "dragStart"
        THEN i = 1 \/ DragEvents[i - 1] = "dragEnd"
        ELSE i > 1 /\ DragEvents[i - 1] \in {"dragStart", "dragMove"}

\* ---------------------------------------------------------------------------
\* The animation: AnimationController with the callbacks the application
\* gives it, and the playing flag and slider of AnimationControlsView.
\* Progress is kept in 1/PROGRESS, speed in progress per second, times in
\* milliseconds. The clock is not kept: _lastTime is always the time of the
\* last play() or _loop(), so the time a _loop() finds elapsed is any time
\* that can pass between the two.
\* ---------------------------------------------------------------------------

\* progress 1.0
PROGRESS == 100000

\* AnimationController.constructor: _speed = 0.2
DefaultSpeed == 20000

\* step of the step buttons: 0.01
ButtonStep == 1000

\* the milliseconds the clock may advance between the two readings of
\* performance.now() that play() makes (a clock of 1 ms resolution)
PlayGaps == {0, 1}

\* the milliseconds between a _loop() and the animation frame it asked for
FrameGaps == {16, 2500}

\* speeds given to setSpeed
Speeds == {DefaultSpeed, 0, -DefaultSpeed}

\* values given to setProgress, and steps given to step
ProgressValues == {0, 99900, PROGRESS, 150000, -ButtonStep}

StepSizes == {ButtonStep, -ButtonStep}

\* positions of the slider (of 0..1000) the user drags it to
SliderPositions == {0, 500, 999}

\* the least progress the animation is followed to
MinProgress == -ButtonStep

\* initAnimationModules: the controller, the controls view, and the animation
\* frames asked for and not yet run
AnimationConstructed ==
    [isPlaying |-> FALSE,
     progress |-> 0,
     speed |-> DefaultSpeed,
     animationFrameId |-> Null,
     frames |-> {},
     viewPlaying |-> FALSE,
     slider |-> 0]

\* AnimationControlsView.setProgress, on a slider of min 0 and max 1000
ViewSetProgress(a, progress) ==
    [a EXCEPT !.slider = MathMax(0, MathMin(1000, (progress * 1000) \div PROGRESS))]

\* AnimationControlsView.setPlaying
SetPlaying(a, isPlaying) == [a EXCEPT !.viewPlaying = isPlaying]

\* the onUpdate callback of initAnimationModules
OnUpdate(a, progress) == ViewSetProgress(a, progress)

\* the onComplete callback of initAnimationModules
OnComplete(a) == SetPlaying(a, FALSE)

\* AnimationController.pause
Pause(a) ==
    IF a.animationFrameId # Null
    THEN [a EXCEPT !.isPlaying = FALSE,
                   !.frames = a.frames \ {a.animationFrameId[1]},
                   !.animationFrameId = Null]
    ELSE [a EXCEPT !.isPlaying = FALSE]

\* AnimationController.setProgress
SetProgress(a, value) ==
    LET progress == MathMax(0, MathMin(PROGRESS, value))
        updated == OnUpdate([a EXCEPT !.progress = progress], progress)
    IN  IF progress >= PROGRESS /\ updated.isPlaying
        THEN OnComplete(Pause(updated))
        ELSE updated

\* requestAnimationFrame: an id no outstanding frame has
RequestAnimationFrame(a) ==
    LET id == CHOOSE i \in 1..(Cardinality(a.frames) + 1) : i \notin a.frames
    IN  [a EXCEPT !.frames = a.frames \cup {id}, !.animationFrameId = Some(id)]

\* AnimationController._loop, deltaTime milliseconds after _lastTime
Loop(a, deltaTime) ==
    IF ~a.isPlaying THEN a
    ELSE LET progress == a.progress + (a.speed * deltaTime) \div 1000
         IN  IF progress >= PROGRESS
             THEN OnComplete(Pause(OnUpdate([a EXCEPT !.progress = PROGRESS], PROGRESS)))
             ELSE RequestAnimationFrame(OnUpdate([a EXCEPT !.progress = progress], progress))

\* AnimationController.play; deltaTime: what the clock advances between its
\* reading and that of the _loop() it calls
Play(a, deltaTime) ==
    IF a.isPlaying THEN a
    ELSE Loop([a EXCEPT !.isPlaying = TRUE,
                        !.progress = IF a.progress >= PROGRESS THEN 0 ELSE a.progress],
              deltaTime)

\* AnimationController.stop
Stop(a) == SetProgress(Pause(a), 0)

\* AnimationController.reset
AnimationReset(a) == [Pause(a) EXCEPT !.progress = 0]

\* AnimationController.step
Step(a, stepSize) ==
    LET paused == Pause(a) IN SetProgress(paused, paused.progress + stepSize)

\* AnimationController.setSpeed
SetSpeed(a, speed) == [a EXCEPT !.speed = speed]

AnimInit ==
    /\ GenIdle
    /\ DrawPointInit
    /\ app = AnimationConstructed
    /\ shapeModel = Circle(DEFAULT_RADIUS, Pt(0, 0))
    /\ currentCyclogon = Null
    /\ generatedCurve = Null
    /\ input = InputConstructed
    /\ now = 0
    /\ timers = {}
    /\ curves = {}
    /\ CurveIdle

animRest == <<genVars, dpVars, shapeModel, currentCyclogon, generatedCurve, input, now,
              timers, curves, curveVars, callLog>>

\* an animation frame the browser runs: the _loop it was asked for
AnimationFrame ==
    \E id \in app.frames, deltaTime \in FrameGaps :
        \E a \in {Loop([app EXCEPT !.frames = app.frames \ {id}], deltaTime)} :
            /\ a.progress >= MinProgress
            /\ app' = a
            /\ UNCHANGED animRest

CallPlay ==
    \E deltaTime \in PlayGaps :
        \E a \in {Play(app, deltaTime)} :
            /\ a.progress >= MinProgress
            /\ app' = a
            /\ UNCHANGED animRest

CallPause == app' = Pause(app) /\ UNCHANGED animRest

CallStop == app' = Stop(app) /\ UNCHANGED animRest

CallReset == app' = AnimationReset(app) /\ UNCHANGED animRest

CallStep ==
    \E stepSize \in StepSizes :
        /\ app' = Step(app, stepSize)
        /\ UNCHANGED animRest

CallSetProgress ==
    \E value \in ProgressValues :
        /\ app' = SetProgress(app, value)
        /\ UNCHANGED animRest

CallSetSpeed ==
    \E speed \in Speeds :
        /\ app' = SetSpeed(app, speed)
        /\ UNCHANGED animRest

AnimNext ==
    \/ CallPlay
    \/ CallPause
    \/ CallStop
    \/ CallReset
    \/ CallStep
    \/ CallSetProgress
    \/ CallSetSpeed
    \/ AnimationFrame

SpecAnim == AnimInit /\ [][AnimNext]_vars

\* C29: the progress of the animation controller is within [0, 1] after any
\* sequence of play, pause, stop, reset, step, setProgress and setSpeed calls
\* and animation frames.
C29_ProgressWithinUnit == 0 <= app.progress /\ app.progress <= PROGRESS

\* ---------------------------------------------------------------------------
\* The animation controls of the page (SpecControls): the buttons and the
\* slider of AnimationControlsView with the callbacks of initAnimationModules,
\* the animation frames, and the reset updateCyclogon makes. The speed stays
\* the constructor's: the application does not call setSpeed.
\* ---------------------------------------------------------------------------

\* the onPlay callback of initAnimationModules
OnPlay(a, deltaTime) == SetPlaying(Play(a, deltaTime), TRUE)

\* the onPause callback
OnPause(a) == SetPlaying(Pause(a), FALSE)

\* the onStepForward callback
OnStepForward(a) == SetPlaying(Step(a, ButtonStep), FALSE)

\* the onStepBackward callback
OnStepBackward(a) == SetPlaying(Step(a, -ButtonStep), FALSE)

\* the onSeek callback; value in 1/PROGRESS
OnSeek(a, value) == SetProgress(a, value)

\* the click listener of the play/pause button
PlayPauseClick ==
    \E deltaTime \in PlayGaps :
        /\ app' = IF app.viewPlaying THEN OnPause(app) ELSE OnPlay(app, deltaTime)
        /\ UNCHANGED animRest

\* the click listener of the start button
StartClick == app' = OnPause(OnSeek(app, 0)) /\ UNCHANGED animRest

\* the click listener of the end button
EndClick == app' = OnPause(OnSeek(app, PROGRESS)) /\ UNCHANGED animRest

\* the click listener of the step-back button
StepBackClick == app' = OnStepBackward(app) /\ UNCHANGED animRest

\* the click listener of the step-forward button
StepFwdClick == app' = OnStepForward(app) /\ UNCHANGED animRest

\* the input listener of the slider: parseInt(value) / 1000
SliderInput ==
    \E position \in SliderPositions :
        /\ app' = OnSeek([app EXCEPT !.slider = position], (position * PROGRESS) \div 1000)
        /\ UNCHANGED animRest

\* updateCyclogon, reached from the handlers of the configuration panel: what
\* it does to the animation once the curve is generated
UpdateCyclogonResets ==
    /\ app' = ViewSetProgress(SetPlaying(AnimationReset(app), FALSE), 0)
    /\ UNCHANGED animRest

ControlsNext ==
    \/ PlayPauseClick
    \/ StartClick
    \/ EndClick
    \/ StepBackClick
    \/ StepFwdClick
    \/ SliderInput
    \/ UpdateCyclogonResets
    \/ AnimationFrame

SpecControls == AnimInit /\ [][ControlsNext]_vars

\* C30: once a handler of the page or an animation frame has run, the playing
\* flag of the animation controls view is the isPlaying flag of the animation
\* controller, also when play is pressed close to the end of the animation
\* and when the animation completes.
C30_ViewPlayingIsPlaying == app.viewPlaying = app.isPlaying

==============================================================================
